---- MODULE Spec2Model ----
(***************************************************************************)
(* ATLK_irF strategic-operator evaluation of pynusmv-tools (atlk_irf):     *)
(* the filter fixpoints and the split enumeration of common.py, the five   *)
(* evalATLK dispatchers (naive, partial, early, backward, symbolic) and    *)
(* their memoization wrappers.                                             *)
(*                                                                         *)
(* A BDD over the state and input variables of a multi-agent system is     *)
(* modelled by the set of <<state, inputs>> pairs that satisfy it; a set   *)
(* of states is a BDD that does not depend on the inputs.  The inputs of   *)
(* a pair give one action per agent.                                       *)
(***************************************************************************)
EXTENDS Integers, Sequences, FiniteSets, TLC

\* ----- bounds of the model ------------------------------------------------
NStates == 3
NActions == 2

States == 1..NStates
Actions == 1..NActions
AgentNames == <<"a", "b">>
Agts == {"a", "b"}
Inputs == [Agts -> Actions]
\* The universe of a BDD: BDD.true(mas)
TrueBDD == States \X Inputs
FalseBDD == {}

VARIABLES
    mas,        \* the multi-agent system under evaluation
    pickKey,    \* the variable order that decides pick_one_state_inputs
    op,         \* the last operation performed
    args,       \* its arguments
    out,        \* what it returned, yielded or stored
    cache,      \* the memoization state of each implementation
    calls       \* the calls completed so far: their states and results

vars == <<mas, pickKey, op, args, out, cache, calls>>

\* ----- generic helpers ----------------------------------------------------
RECURSIVE Flatten(_)
Flatten(ss) == IF ss = <<>> THEN <<>> ELSE Head(ss) \o Flatten(Tail(ss))

RECURSIVE SeqUnion(_)
SeqUnion(ss) == IF ss = <<>> THEN {} ELSE Head(ss) \cup SeqUnion(Tail(ss))

Range(s) == {s[k] : k \in DOMAIN s}

\* ----- the symbolic set algebra (BDD operations) ---------------------------
Neg(X) == TrueBDD \ X

\* the states of a BDD, as a plain set
StatesOf(X) == {p[1] : p \in X}

\* a plain set of states as a BDD (free inputs)
Lift(S) == S \X Inputs

\* X.forsome(mas.bddEnc.inputsCube)
ForsomeInputs(X) == Lift(StatesOf(X))

\* X.forsome(inputsCube - inputs_cube_for_agents(agents))
ForsomeOthers(X, agents) ==
    UNION {{<<q[1], i>> : i \in {j \in Inputs :
                                   \A ag \in agents : j[ag] = q[2][ag]}}
           : q \in X}

\* X.forsome(statesCube | (inputsCube - inputs_cube_for_agents({agent})))
ForsomeStatesAndOthers(X, agent) ==
    LET acts == {q[2][agent] : q \in X}
    IN {p \in TrueBDD : p[2][agent] \in acts}

\* ranks of the pairs under the variable orders considered
InputIdx(i) == (i["a"] - 1) * NActions + i["b"]
KeyOf(id, p) ==
    CASE id = 1 -> p[1] * 10 + InputIdx(p[2])
      [] id = 2 -> (NStates + 1 - p[1]) * 10 + InputIdx(p[2])
      [] id = 3 -> p[1] * 10 + (9 - InputIdx(p[2]))
      [] OTHER -> InputIdx(p[2]) * 10 + (NStates + 1 - p[1])

\* mas.pick_one_state_inputs(X): the engine picks the first pair of X in its
\* variable order; pickKey ranks the pairs.
PickRank(p) == KeyOf(pickKey, p)
pick_one_state_inputs(X) ==
    CHOOSE p \in X : \A q \in X : PickRank(p) <= PickRank(q)

\* ----- the multi-agent system ----------------------------------------------
\* mas.weak_pre(X): the pairs with a successor in X
weak_pre(X) ==
    {<<t[1], t[2]>> : t \in {u \in mas.trans : <<u[3], u[2]>> \in X}}

\* mas.post(X): the states reached from the pairs of X
post(X) == Lift({t[3] : t \in {u \in mas.trans : <<u[1], u[2]>> \in X}})

\* mas.equivalent_states(X, {agent})
equivalent_states(X, agent) ==
    LET seen == {mas.obs[agent][q[1]] : q \in X}
    IN Lift({s \in States : mas.obs[agent][s] \in seen})

\* mas.protocol(agents): the moves whose action is enabled for each agent
Enabled(trans, ag, s) == {t[2][ag] : t \in {u \in trans : u[1] = s}}
ProtocolOf(trans, agents) ==
    {p \in TrueBDD : \A ag \in agents : p[2][ag] \in Enabled(trans, ag, p[1])}
protocol(agents) == ProtocolOf(mas.trans, Range(agents))

\* mas.reachable_states
RECURSIVE ReachFrom(_, _)
ReachFrom(trans, S) ==
    LET N == S \cup {t[3] : t \in {u \in trans : u[1] \in S}}
    IN IF N = S THEN S ELSE ReachFrom(trans, N)
reachable_states == Lift(mas.reach)

\* A system from its transition relation, observations, initial states,
\* fairness constraints and the valuation of the atoms.
MkMas(trans, obs, init, fair, val) ==
    [trans |-> trans, obs |-> obs, init |-> init, fair |-> fair,
     val |-> val, reach |-> ReachFrom(trans, init)]

\* pynusmv.utils.fixpoint: iterate funct from start until nothing changes
RECURSIVE fixpoint(_, _)
fixpoint(funct(_), start) ==
    LET new == funct(start)
    IN IF new = start THEN start ELSE fixpoint(funct, new)

\* the fairness constraints, with their actions abstracted away, complemented
NotFair(k) == Neg(ForsomeInputs(mas.fair[k]))

\* ----- filter algorithms (common.py) ---------------------------------------
\* pre_ce that asks for some successor in states, not for all of them
pre_ce_some(agents, states, moves) ==
    ForsomeInputs(
       ForsomeOthers(weak_pre(ForsomeInputs(states)), Range(agents))
       \cap ForsomeOthers(moves, Range(agents)))

pre_ce(agents, states, moves) ==
    LET st == ForsomeInputs(states)
        mv == ForsomeOthers(moves, Range(agents))
        nstates == Neg(st)
    IN ForsomeInputs(
         ForsomeOthers(
            Neg(ForsomeOthers(weak_pre(nstates), Range(agents)))
            \cap weak_pre(st),
            Range(agents))
         \cap mv)

stay_ce(agents, states_1, states_2, moves) ==
    LET s1 == ForsomeInputs(states_1)
        s2 == ForsomeInputs(states_2)
    IN fixpoint(LAMBDA Z : s2 \cup (s1 \cap pre_ce(agents, Z, moves)), TrueBDD)

nfair_ce(agents, moves) ==
    IF mas.fair = <<>> THEN FalseBDD
    ELSE fixpoint(LAMBDA Z :
            UNION {pre_ce(agents,
                          stay_ce(agents, Z \cup NotFair(k), FalseBDD, moves),
                          moves) : k \in DOMAIN mas.fair},
            FalseBDD)

\* filter_cex on the whole protocol, whatever the moves given
filter_cex_protocol(agents, states, moves) ==
    pre_ce(agents, states \cup nfair_ce(agents, protocol(agents)),
           protocol(agents))

filter_cex(agents, states, moves) ==
    pre_ce(agents, states \cup nfair_ce(agents, moves), moves)

\* filter_ceu that keeps the states of states_2 only when in states_1
filter_ceu_within(agents, states_1, states_2, moves) ==
    LET s1 == ForsomeInputs(states_1)
        s2 == ForsomeInputs(states_2)
    IN fixpoint(LAMBDA Z : s1 \cap (s2 \cup pre_ce(agents, Z, moves)),
                FalseBDD)

filter_ceu(agents, states_1, states_2, moves) ==
    LET s1 == ForsomeInputs(states_1)
        s2 == ForsomeInputs(states_2)
    IN IF mas.fair = <<>>
       THEN fixpoint(LAMBDA Z : s2 \cup (s1 \cap pre_ce(agents, Z, moves)),
                     FalseBDD)
       ELSE LET s12n == s1 \cup s2 \cup nfair_ce(agents, moves)
            IN fixpoint(LAMBDA Z :
                  (s2 \cup UNION {pre_ce(agents,
                                         stay_ce(agents,
                                                 s12n \cap (Z \cup NotFair(k)),
                                                 s2 \cap (Z \cup NotFair(k)),
                                                 moves),
                                         moves) : k \in DOMAIN mas.fair})
                  \cap s12n,
                  FalseBDD)

\* filter_cew without the states that have no fair path
filter_cew_nonfair(agents, states_1, states_2, moves) ==
    stay_ce(agents, ForsomeInputs(states_1) \cup ForsomeInputs(states_2),
            states_2, moves)

filter_cew(agents, states_1, states_2, moves) ==
    LET s1 == ForsomeInputs(states_1)
        s2 == ForsomeInputs(states_2)
    IN IF mas.fair = <<>>
       THEN fixpoint(LAMBDA Z : s2 \cup (s1 \cap pre_ce(agents, Z, moves)),
                     TrueBDD)
       ELSE stay_ce(agents, s1 \cup s2 \cup nfair_ce(agents, moves), s2, moves)

\* ----- filter^M algorithms (common.py) -------------------------------------
pre_ce_moves(agents, target, moves) ==
    LET st == ForsomeInputs(target)
        mv == ForsomeOthers(moves, Range(agents))
        nstates == Neg(st)
    IN ForsomeOthers(
         ForsomeOthers(
            Neg(ForsomeOthers(weak_pre(nstates), Range(agents)))
            \cap weak_pre(st),
            Range(agents))
         \cap mv,
         Range(agents))

stay_ce_moves(agents, moves_1, moves_2, moves) ==
    LET m1 == ForsomeOthers(moves_1, Range(agents))
        m2 == ForsomeOthers(moves_2, Range(agents))
    IN fixpoint(LAMBDA Z : m2 \cup (m1 \cap pre_ce_moves(agents, Z, moves)),
                TrueBDD)

nfair_ce_moves(agents, moves) ==
    IF mas.fair = <<>> THEN FalseBDD
    ELSE fixpoint(LAMBDA Z :
            UNION {pre_ce_moves(agents,
                      stay_ce_moves(agents,
                                    Z \cup (NotFair(k) \cap protocol(agents)
                                            \cap moves),
                                    FalseBDD,
                                    moves),
                      moves) : k \in DOMAIN mas.fair},
            FalseBDD)

filter_cex_moves(agents, target, moves) ==
    pre_ce_moves(agents,
                 (target \cap protocol(agents))
                 \cup nfair_ce_moves(agents, moves),
                 moves)

filter_ceu_moves(agents, moves_1, moves_2, moves) ==
    LET m1 == ForsomeInputs(moves_1) \cap protocol(agents)
        m2 == ForsomeInputs(moves_2) \cap protocol(agents)
    IN IF mas.fair = <<>>
       THEN fixpoint(LAMBDA Z :
                (m2 \cap moves)
                \cup (m1 \cap moves \cap pre_ce_moves(agents, Z, moves)),
                FalseBDD)
       ELSE LET m12n == (m1 \cup m2 \cup nfair_ce_moves(agents, moves))
                        \cap moves
            IN fixpoint(LAMBDA Z :
                  ((m2 \cap moves)
                   \cup UNION {pre_ce_moves(agents,
                                  stay_ce_moves(agents,
                                     m12n \cap (Z \cup (NotFair(k)
                                                        \cap protocol(agents)
                                                        \cap moves)),
                                     m2 \cap moves
                                        \cap (Z \cup (NotFair(k)
                                                      \cap protocol(agents)
                                                      \cap moves)),
                                     moves),
                                  moves) : k \in DOMAIN mas.fair})
                  \cap m12n,
                  FalseBDD)

filter_cew_moves(agents, moves_1, moves_2, moves) ==
    LET s2 == ForsomeInputs(moves_2)
        m1 == ForsomeInputs(moves_1) \cap protocol(agents)
        m2 == s2 \cap protocol(agents)
    IN IF mas.fair = <<>>
       THEN fixpoint(LAMBDA Z :
                (m2 \cap moves)
                \cup (m1 \cap moves \cap pre_ce_moves(agents, Z, moves)),
                TrueBDD)
       ELSE stay_ce_moves(agents,
                          (m1 \cup m2 \cup nfair_ce_moves(agents, moves))
                          \cap moves,
                          s2 \cap moves,
                          moves)

\* ----- split algorithms (common.py) ----------------------------------------
get_equiv_class(agents, states) ==
    states \cup UNION {equivalent_states(states, ag) \cap reachable_states
                       : ag \in Range(agents)}

is_conflicting(agents, agent, eqclass) ==
    LET si == pick_one_state_inputs(eqclass)
    IN eqclass \ (eqclass \cap ForsomeStatesAndOthers({si}, agent)) # {}

\* the generator of split_conflicting, as the sequence of what it yields
RECURSIVE split_conflicting(_, _, _)
\* mutant: only the first action of a conflicting class is kept
split_conflicting_first(agents, agent, eqclass) ==
    IF eqclass = {} THEN <<>>
    ELSE LET si == pick_one_state_inputs(eqclass)
         IN <<eqclass \cap ForsomeStatesAndOthers({si}, agent)>>
split_conflicting(agents, agent, eqclass) ==
    IF eqclass = {} THEN <<>>
    ELSE LET si == pick_one_state_inputs(eqclass)
             ncss == eqclass \cap ForsomeStatesAndOthers({si}, agent)
         IN <<ncss>> \o split_conflicting(agents, agent, eqclass \ ncss)

\* the while loop of split_one, from the common part gathered so far
RECURSIVE split_one_loop(_, _, _, _)
\* mutant: the common part gathered before a conflicting class is dropped
split_one_loop_nocommon(agents, agent, common, moves) ==
    IF moves = {} THEN <<<<common, moves, moves>>>>
    ELSE LET si == pick_one_state_inputs(moves)
             eqcl == moves \cap get_equiv_class(<<agent>>, ForsomeInputs({si}))
             rest == moves \ eqcl
         IN IF is_conflicting(agents, agent, eqcl)
            THEN LET ncs == split_conflicting(agents, agent, eqcl)
                 IN [k \in 1..Len(ncs) |-> <<{}, ncs[k], rest>>]
            ELSE split_one_loop(agents, agent, common \cup eqcl, rest)
split_one_loop(agents, agent, common, moves) ==
    IF moves = {} THEN <<<<common, moves, moves>>>>
    ELSE LET si == pick_one_state_inputs(moves)
             s == ForsomeInputs({si})
             eqs == get_equiv_class(<<agent>>, s)
             eqcl == moves \cap eqs
             rest == moves \ eqcl
         IN IF is_conflicting(agents, agent, eqcl)
            THEN LET ncs == split_conflicting(agents, agent, eqcl)
                 IN [k \in 1..Len(ncs) |-> <<common, ncs[k], rest>>]
            ELSE split_one_loop(agents, agent, common \cup eqcl, rest)

split_one(agents, agent, moves) ==
    IF moves = {} THEN <<<<moves, moves, moves>>>>
    ELSE split_one_loop(agents, agent, {}, moves)

RECURSIVE split_agent(_, _, _)
split_agent(agents, agent, moves) ==
    IF moves = {} THEN <<moves>>
    ELSE LET triples == split_one(agents, agent, moves)
         IN Flatten([k \in 1..Len(triples) |->
               LET strats == split_agent(agents, agent, triples[k][3])
               IN [j \in 1..Len(strats) |->
                     triples[k][1] \cup triples[k][2] \cup strats[j]]])

RECURSIVE split(_, _)
split(agents, moves) ==
    IF agents = <<>> THEN <<moves>>
    ELSE LET others_strats == split(Tail(agents), moves)
         IN Flatten([k \in 1..Len(others_strats) |->
               split_agent(agents, Head(agents), others_strats[k])])

\* ----- others (common.py) ----------------------------------------------------
\* all_equiv_sat without the removal of the states an agent confuses with a
\* reachable state outside states
all_equiv_sat_kept(agents, states) == states

\* all_equiv_sat that only looks at the initial states outside states
all_equiv_sat_init(agents, states) ==
    LET missing == Neg(states)
    IN states \ UNION {equivalent_states(missing \cap Lift(mas.init), ag)
                       : ag \in Range(agents)}

all_equiv_sat(agents, states) ==
    LET missing == Neg(states)
    IN states \ UNION {equivalent_states(missing \cap reachable_states, ag)
                       : ag \in Range(agents)}

post_through(agents, states, moves) == post(states \cap moves)

\* the while loop of compatible_moves_for_agent
RECURSIVE compatible_loop(_, _, _, _)
compatible_loop(agent, moves, filtered, compatible) ==
    IF moves = {} THEN compatible
    ELSE LET si == pick_one_state_inputs(moves)
             s == ForsomeInputs({si})
             eqs == get_equiv_class(<<agent>>, s)
             eqcl == moves \cap eqs
             agent_action == ForsomeStatesAndOthers(filtered \cap eqs, agent)
         IN compatible_loop(agent, moves \ eqcl, filtered,
               IF eqs \cap filtered = {}
               THEN compatible \cup eqcl
               ELSE compatible \cup (eqcl \cap agent_action))

compatible_moves_for_agent(agents, agent, moves, filtered) ==
    compatible_loop(agent, moves, filtered, FalseBDD)

\* compatible_moves with the first agent of the coalition only
compatible_moves_first(agents, moves, filtered) ==
    IF agents = <<>> THEN moves
    ELSE compatible_moves_for_agent(agents, Head(agents), moves, filtered)

RECURSIVE compatible_moves(_, _, _)
compatible_moves(agents, moves, filtered) ==
    IF agents = <<>> THEN moves
    ELSE compatible_moves(Tail(agents),
            compatible_moves_for_agent(agents, Head(agents), moves, filtered),
            filtered)

\* ----- utils.py -------------------------------------------------------------
\* without groups in the system, the agents of a list are its names, once each
RECURSIVE agents_in_list(_)
agents_in_list(agents) ==
    IF agents = <<>> THEN <<>>
    ELSE LET front == agents_in_list(SubSeq(agents, 1, Len(agents) - 1))
             last == agents[Len(agents)]
         IN IF last \in Range(front) THEN front ELSE Append(front, last)

Eequiv(agents, states) ==
    UNION {equivalent_states(states, ag) \cap reachable_states
           : ag \in Range(agents_in_list(agents))}

reach(states) == fixpoint(LAMBDA Z : states \cup post(Z), FalseBDD)

\* ----- formulas (atlkFO.ast) --------------------------------------------------
TrueExp == [kind |-> "True"]
FalseExp == [kind |-> "False"]
InitExp == [kind |-> "Init"]
Reachable == [kind |-> "Reachable"]
Atom(v) == [kind |-> "Atom", value |-> v]
Unary(k, c) == [kind |-> k, child |-> c]
Binary(k, l, r) == [kind |-> k, left |-> l, right |-> r]
Not(c) == Unary("Not", c)
And(l, r) == Binary("And", l, r)
Or(l, r) == Binary("Or", l, r)
EX(c) == Unary("EX", c)
EG(c) == Unary("EG", c)
EF(c) == Unary("EF", c)
EU(l, r) == Binary("EU", l, r)
nK(ag, c) == [kind |-> "nK", agent |-> ag, child |-> c]
Group1(k, g, c) == [kind |-> k, group |-> g, child |-> c]
Group2(k, g, l, r) == [kind |-> k, group |-> g, left |-> l, right |-> r]
nE(g, c) == Group1("nE", g, c)
nD(g, c) == Group1("nD", g, c)
nC(g, c) == Group1("nC", g, c)
CEX(g, c) == Group1("CEX", g, c)
CEF(g, c) == Group1("CEF", g, c)
CEG(g, c) == Group1("CEG", g, c)
CEU(g, l, r) == Group2("CEU", g, l, r)
CEW(g, l, r) == Group2("CEW", g, l, r)

\* the formula a derived operator is rewritten to
Rewritten(f) ==
    CASE f.kind = "Implies" -> Or(Not(f.left), f.right)
      [] f.kind = "Iff" ->
            Or(And(f.left, f.right), And(Not(f.left), Not(f.right)))
      [] f.kind = "AG" -> Not(EF(Not(f.child)))
      [] f.kind = "AU" ->
            Not(Or(EU(Not(f.right), And(Not(f.left), Not(f.right))),
                   EG(Not(f.right))))
      [] f.kind = "EF" -> EU(TrueExp, f.child)
      [] f.kind = "AF" -> Not(EG(Not(f.child)))
      [] f.kind = "EW" -> Or(EU(f.left, f.right), EG(f.left))
      [] f.kind = "AW" ->
            Not(EU(Not(f.right), And(Not(f.left), Not(f.right))))
      [] f.kind = "K" -> Not(nK(f.agent, Not(f.child)))
      [] f.kind = "E" -> Not(nE(f.group, Not(f.child)))
      [] f.kind = "D" -> Not(nD(f.group, Not(f.child)))
      [] f.kind = "C" -> Not(nC(f.group, Not(f.child)))
      [] f.kind = "CAX" -> CEX(f.group, Not(f.child))
      [] f.kind = "CAG" -> CEF(f.group, Not(f.child))
      [] f.kind = "CAU" ->
            CEW(f.group, Not(f.right), And(Not(f.left), Not(f.right)))
      [] f.kind = "CAF" -> CEG(f.group, Not(f.child))
      [] f.kind = "CAW" ->
            CEU(f.group, Not(f.right), And(Not(f.left), Not(f.right)))
      [] f.kind = "CEG" -> CEW(f.group, f.child, FalseExp)
      [] f.kind = "CEF" -> CEU(f.group, TrueExp, f.child)

RewrittenKinds == {"Implies", "Iff", "AG", "AU", "EF", "AF", "EW", "AW",
                   "K", "E", "D", "C", "CEG", "CEF"}
NegatedKinds == {"CAX", "CAG", "CAU", "CAF", "CAW"}

\* pynusmv.mc.eval_simple_expression on an atom
eval_simple_expression(value) == Lift(mas.val[value])

\* ----- CTL and epistemic operators (atlkFO.eval) ------------------------------
\* mas.pre(X): the states with a successor in X
pre(X) == ForsomeInputs(weak_pre(ForsomeInputs(X)))

eu_unfair(phi, psi) == fixpoint(LAMBDA Z : psi \cup (phi \cap pre(Z)), FalseBDD)

\* EG under the fairness constraints of the system
eg(phi) ==
    IF mas.fair = <<>>
    THEN fixpoint(LAMBDA Z : phi \cap pre(Z), TrueBDD)
    ELSE fixpoint(LAMBDA Z :
            phi \cap {p \in TrueBDD : \A k \in DOMAIN mas.fair :
                        p \in pre(eu_unfair(phi,
                                 phi \cap Z \cap ForsomeInputs(mas.fair[k])))},
            TrueBDD)

fair_states == eg(TrueBDD)
ex(phi) == pre(phi \cap fair_states)
eu(phi, psi) == eu_unfair(phi, psi \cap fair_states)
nk(agent, phi) ==
    equivalent_states(phi \cap fair_states \cap reachable_states, agent)
ne(group, phi) == UNION {nk(ag, phi) : ag \in Range(group)}
nd(group, phi) ==
    LET X == phi \cap fair_states \cap reachable_states
    IN Lift({s \in States : \E q \in X : \A ag \in Range(group) :
                              mas.obs[ag][q[1]] = mas.obs[ag][s]})
nc(group, phi) == fixpoint(LAMBDA Z : ne(group, Z \cup phi), FalseBDD)

\* ----- results and memoization state ------------------------------------------
\* What a call returns: the BDD r, or the exception err it raised, and the
\* memoization state m the call leaves behind.  m.c is the module's
\* __evalATLK_cache for the system, a set of entries [f, sat, unsat]; m.log
\* lists the invocations of the un-memoized evalATLK, in order.
Ret(r, m) == [err |-> "", r |-> r, m |-> m]
Raise(e, m) == [err |-> e, r |-> FalseBDD, m |-> m]
\* raise NotImplementedError("Unsupported formula: " + str(formula))
Unsupported(f, m) ==
    [err |-> "NotImplementedError", r |-> FalseBDD, m |-> m, named |-> f]
\* the formula the message of an exception names, if any
Named(x) == IF "named" \in DOMAIN x THEN x.named ELSE <<>>
EmptyMemo == [c |-> {}, log |-> <<>>]
InCache(m, f) == \E e \in m.c : e.f = f
CacheOf(m, f) == CHOOSE e \in m.c : e.f = f
Store(m, f, sat, unsat) ==
    [m EXCEPT !.c = {e \in @ : e.f # f}
                    \cup {[f |-> f, sat |-> sat, unsat |-> unsat]}]
Logged(m, f, states) ==
    [m EXCEPT !.log = Append(@, [f |-> f, states |-> states])]

\* the rest K of a function after a call that returned x without raising
Then(x, K(_)) == IF x.err # "" THEN x ELSE K(x)

\* the result of a unary or binary set operation on the results of calls
Bind1(x, Op(_)) == IF x.err # "" THEN x ELSE Ret(Op(x.r), x.m)
Bind2(x, second(_), Op(_, _)) ==
    Then(x, LAMBDA l : Then(second(l.m), LAMBDA r : Ret(Op(l.r, r.r), r.m)))

IsStrat(f) == f.kind \in {"CEX", "CEU", "CEW"}
Left(f) == IF f.kind = "CEX" THEN f.child ELSE f.left

\* ----- naive.py ----------------------------------------------------------------
RECURSIVE naive_evalATLK(_, _, _)
RECURSIVE naive_orig_evalATLK(_, _, _)
RECURSIVE naive_eval_strat(_, _, _)

\* the winning states of one strategy, from the values of the sub-formulas
naive_winning(f, agents, sub_1, sub_2, strat) ==
    CASE f.kind = "CEX" -> filter_cex(agents, sub_1, strat)
      [] f.kind = "CEU" -> filter_ceu(agents, sub_1, sub_2, strat)
      [] f.kind = "CEW" -> filter_cew(agents, sub_1, sub_2, strat)

\* naive_filtered with the filter of CEX used for every operator
naive_filtered_cex(f, agents, sub_1, sub_2) ==
    filter_cex_moves(agents, sub_1, protocol(agents))

naive_filtered(f, agents, sub_1, sub_2) ==
    CASE f.kind = "CEX" -> filter_cex_moves(agents, sub_1, protocol(agents))
      [] f.kind = "CEU" ->
            filter_ceu_moves(agents, sub_1, sub_2, protocol(agents))
      [] f.kind = "CEW" ->
            filter_cew_moves(agents, sub_1, sub_2, protocol(agents))

\* The sub-formulas are evaluated by the memoized evalATLK at each strategy;
\* from the second strategy on these calls hit the cache, so they are made
\* once here.
naive_eval_strat(m, f, pre_filtering) ==
    LET agents == agents_in_list(f.group)
    IN Then(naive_evalATLK(m, Left(f), pre_filtering), LAMBDA x1 :
       Then(IF f.kind = "CEX" THEN x1
            ELSE naive_evalATLK(x1.m, f.right, pre_filtering), LAMBDA x2 :
       LET filtered == IF pre_filtering
                       THEN naive_filtered(f, agents, x1.r, x2.r)
                       ELSE protocol(agents)
           strats == split(agents, filtered)
       IN IF pre_filtering /\ filtered = FalseBDD THEN Ret(filtered, x2.m)
          ELSE Ret(UNION {all_equiv_sat(agents,
                             naive_winning(f, agents, x1.r, x2.r, strats[k]))
                          : k \in DOMAIN strats},
                   x2.m)))

naive_orig_evalATLK(m, f, pf) ==
    LET ev(mm, g) == naive_evalATLK(mm, g, pf)
        Un(Op(_)) == Bind1(ev(m, f.child), Op)
        Bin(Op(_, _)) ==
            Bind2(ev(m, f.left), LAMBDA mm : ev(mm, f.right), Op)
    IN CASE f.kind = "True" -> Ret(TrueBDD, m)
         [] f.kind = "False" -> Ret(FalseBDD, m)
         [] f.kind = "Init" -> Ret(Lift(mas.init), m)
         [] f.kind = "Reachable" -> Ret(reachable_states, m)
         [] f.kind = "Atom" -> Ret(eval_simple_expression(f.value), m)
         [] f.kind \in {"And", "Or", "Implies", "Iff", "EU", "AU", "EW",
                        "AW"} ->
               Bin(LAMBDA a, b :
                  CASE f.kind = "And" -> a \cap b
                    [] f.kind = "Or" -> a \cup b
                    [] f.kind = "Implies" -> Neg(a) \cup b
                    [] f.kind = "Iff" -> (a \cap b) \cup (Neg(a) \cap Neg(b))
                    [] f.kind = "EU" -> eu(a, b)
                    [] f.kind = "AU" ->
                          Neg(eu(Neg(b), Neg(b) \cap Neg(a)) \cup eg(Neg(b)))
                    [] f.kind = "EW" -> eu(a, b) \cup eg(a)
                    [] f.kind = "AW" -> Neg(eu(Neg(b), Neg(a) \cap Neg(b))))
         [] f.kind \in {"Not", "EX", "AX", "EG", "AG", "EF", "AF", "nK", "K",
                        "nE", "E", "nD", "D", "nC", "C"} ->
               Un(LAMBDA a :
                  CASE f.kind = "Not" -> Neg(a)
                    [] f.kind = "EX" -> ex(a)
                    [] f.kind = "AX" -> Neg(ex(Neg(a)))
                    [] f.kind = "EG" -> eg(a)
                    [] f.kind = "AG" -> Neg(eu(TrueBDD, Neg(a)))
                    [] f.kind = "EF" -> eu(TrueBDD, a)
                    [] f.kind = "AF" -> Neg(eg(Neg(a)))
                    [] f.kind = "nK" -> nk(f.agent, a)
                    [] f.kind = "K" -> Neg(nk(f.agent, Neg(a)))
                    [] f.kind = "nE" -> ne(f.group, a)
                    [] f.kind = "E" -> Neg(ne(f.group, Neg(a)))
                    [] f.kind = "nD" -> nd(f.group, a)
                    [] f.kind = "D" -> Neg(nd(f.group, Neg(a)))
                    [] f.kind = "nC" -> nc(f.group, a)
                    [] f.kind = "C" -> Neg(nc(f.group, Neg(a))))
         [] f.kind \in NegatedKinds -> Bind1(ev(m, Rewritten(f)), Neg)
         [] f.kind \in {"CEG", "CEF"} -> ev(m, Rewritten(f))
         [] IsStrat(f) -> naive_eval_strat(m, f, pf)
         [] OTHER -> Raise("Exception", m)

\* __cached_evalATLK of naive.py: the cache key leaves pre_filtering out
naive_evalATLK(m, f, pre_filtering) ==
    IF InCache(m, f) THEN Ret(CacheOf(m, f).sat, m)
    ELSE Then(naive_orig_evalATLK(Logged(m, f, TrueBDD), f, pre_filtering),
              LAMBDA x : Ret(x.r, Store(x.m, f, x.r, FalseBDD)))

\* ----- the dispatcher shared by partial.py, early.py and backward.py ---------
\* Dequiv builds the set {agents} of a list and Cequiv reads the undefined
\* name fsm: both raise; so does the AX branch, which reads the undefined
\* name spec.
Dequiv(agents, states) == "TypeError"
Cequiv(agents, states) == "NameError"

\* The branches of evalATLK that partial.py, early.py and backward.py share,
\* over ev, the memoized evalATLK of the module, and strat, its eval_strat.
Dispatch(m, f, states, ev(_, _, _), strat(_, _, _), unsupported) ==
    CASE f.kind = "True" -> Ret(states, m)
      [] f.kind = "False" -> Ret(FalseBDD, m)
      [] f.kind = "Init" -> Ret(Lift(mas.init) \cap states, m)
      [] f.kind = "Reachable" -> Ret(reachable_states \cap states, m)
      [] f.kind = "Atom" ->
            Ret(eval_simple_expression(f.value) \cap states, m)
      [] f.kind \in {"And", "Or"} ->
            Bind2(ev(m, f.left, states), LAMBDA mm : ev(mm, f.right, states),
                  LAMBDA a, b : IF f.kind = "And" THEN a \cap b ELSE a \cup b)
      [] f.kind = "EU" ->
            Bind2(ev(m, f.left, reach(states)),
                  LAMBDA mm : ev(mm, f.right, reach(states)), eu)
      [] f.kind = "AX" -> Raise("NameError", m)
      [] f.kind \in unsupported -> Unsupported(f, m)
      [] f.kind \in {"Not", "EX", "EG", "nK", "nE"} ->
            Bind1(ev(m, f.child,
                     CASE f.kind = "Not" -> states
                       [] f.kind = "EX" -> post(states)
                       [] f.kind = "EG" -> reach(states)
                       [] f.kind = "nK" ->
                             equivalent_states(states, f.agent)
                             \cap reachable_states
                       [] f.kind = "nE" -> Eequiv(f.group, states)),
                  LAMBDA a :
                     CASE f.kind = "Not" -> states \ a
                       [] f.kind = "EX" -> ex(a) \cap states
                       [] f.kind = "EG" -> eg(a) \cap states
                       [] f.kind = "nK" -> nk(f.agent, a) \cap states
                       [] f.kind = "nE" -> ne(f.group, a) \cap states)
      [] f.kind = "nD" -> Raise(Dequiv(f.group, states), m)
      [] f.kind = "nC" -> Raise(Cequiv(f.group, states), m)
      [] f.kind \in (RewrittenKinds \cup NegatedKinds) \ unsupported ->
            Bind1(ev(m, Rewritten(f), states),
                  LAMBDA a : IF f.kind \in NegatedKinds THEN Neg(a) ELSE a)
      [] IsStrat(f) /\ f.kind \notin unsupported -> strat(m, f, states)
      [] OTHER -> Raise("Exception", m)

\* __cached_evalATLK of partial.py and early.py, over orig, the un-memoized
\* evalATLK of the module
Memoized(m, f, states, orig(_, _, _)) ==
    LET known == InCache(m, f)
        sat == IF known THEN CacheOf(m, f).sat ELSE FalseBDD
        unsat == IF known THEN CacheOf(m, f).unsat ELSE FalseBDD
        remaining == states \ (sat \cup unsat)
    IN IF remaining = FalseBDD THEN Ret(sat, m)
       ELSE Then(orig(Logged(m, f, remaining), f, remaining), LAMBDA x :
               Ret(sat \cup x.r,
                   Store(x.m, f, sat \cup x.r, unsat \cup (remaining \ x.r))))

\* ----- partial.py ----------------------------------------------------------------
\* reach_split_filtered that never extends the moves it is given
reach_split_filtered_none(agents, moves, filtered) == <<moves>>

RECURSIVE reach_split_filtered(_, _, _)
reach_split_filtered(agents, moves, filtered) ==
    LET new_states == post_through(agents, TrueBDD, moves)
                      \ ForsomeInputs(moves)
        new_moves == new_states \cap filtered
        compatible == compatible_moves(agents, new_moves, moves)
        subs == split(agents, compatible)
    IN IF compatible = FalseBDD THEN <<moves>>
       ELSE Flatten([k \in DOMAIN subs |->
               reach_split_filtered(agents, moves \cup subs[k], filtered)])

partial_strategies_filtered(agents, states, filtered) ==
    LET ncs == split(agents, states \cap filtered)
    IN Flatten([k \in DOMAIN ncs |->
                  reach_split_filtered(agents, ncs[k], filtered)])

RECURSIVE partial_evalATLK(_, _, _, _)
RECURSIVE partial_orig_evalATLK(_, _, _, _)
RECURSIVE partial_eval_strat(_, _, _, _)
RECURSIVE partial_loop(_, _, _, _, _, _, _)

\* the sub-formulas of a strategic formula on the given states, then the
\* result of combine on their values
WithSubs(m, f, sub_states, ev(_, _, _), combine(_, _, _)) ==
    Then(ev(m, Left(f), sub_states), LAMBDA x1 :
    Then(IF f.kind = "CEX" THEN x1 ELSE ev(x1.m, f.right, sub_states),
         LAMBDA x2 : combine(x1.r, x2.r, x2.m)))

\* the for loop of eval_strat, from strategy k on
partial_loop(m, f, pf, agents, states, strats, sat) ==
    IF strats = <<>> \/ sat = states THEN Ret(sat, m)
    ELSE LET strat == Head(strats)
             sub_states ==
                IF f.kind = "CEX"
                THEN post_through(agents, Eequiv(agents, states), strat)
                ELSE ForsomeInputs(strat)
         IN Then(WithSubs(m, f, sub_states,
                    LAMBDA mm, g, S : partial_evalATLK(mm, g, S, pf),
                    LAMBDA s1, s2, mm :
                       Ret(all_equiv_sat(agents,
                              naive_winning(f, agents, s1, s2, strat))
                           \cap states, mm)),
                 LAMBDA x :
                    partial_loop(x.m, f, pf, agents, states, Tail(strats),
                                 sat \cup x.r))

partial_eval_strat(m, f, states, pf) ==
    LET agents == agents_in_list(f.group)
        sub_states ==
            IF f.kind = "CEX"
            THEN post_through(agents, Eequiv(agents, states),
                              protocol(agents))
            ELSE reach(states)
    IN Then(IF pf
            THEN WithSubs(m, f, sub_states,
                    LAMBDA mm, g, S : partial_evalATLK(mm, g, S, pf),
                    LAMBDA s1, s2, mm :
                       Ret(naive_filtered(f, agents, s1, s2), mm))
            ELSE Ret(protocol(agents), m),
            LAMBDA found :
       LET filtered == found.r
           known == ForsomeInputs(states \cap filtered)
       IN IF pf /\ states \cap filtered = FalseBDD
          THEN Ret(FalseBDD, found.m)
          ELSE partial_loop(found.m, f, pf, agents, known,
                  partial_strategies_filtered(agents,
                                              Eequiv(agents, known),
                                              filtered),
                  FalseBDD))

partial_orig_evalATLK(m, f, states, pf) ==
    Dispatch(m, f, states,
             LAMBDA mm, g, S : partial_evalATLK(mm, g, S, pf),
             LAMBDA mm, g, S : partial_eval_strat(mm, g, S, pf),
             {})

\* the wrapper with the whole states argument passed on, cached or not
partial_evalATLK_all(m, f, states, pf) ==
    Then(partial_orig_evalATLK(Logged(m, f, states), f, states, pf), LAMBDA x :
       Ret(x.r, Store(x.m, f, x.r, states \ x.r)))

partial_evalATLK(m, f, states, pf) ==
    Memoized(m, f, states,
             LAMBDA mm, g, S : partial_orig_evalATLK(mm, g, S, pf))

\* ----- early.py: universal filtering ------------------------------------------
\* pre_univ that asks for one move with a successor in states
pre_univ_some(agents, states, moves) == pre_ce_some(agents, states, moves)

pre_univ(agents, states, moves) ==
    LET st == ForsomeInputs(states)
        mv == ForsomeOthers(moves, Range(agents))
        nstates == Neg(st)
    IN Neg(ForsomeInputs(weak_pre(nstates) \cap mv)) \cap ForsomeInputs(mv)

stay_univ(agents, states_1, states_2, moves) ==
    LET s1 == ForsomeInputs(states_1)
        s2 == ForsomeInputs(states_2)
    IN fixpoint(LAMBDA Z : s2 \cup (s1 \cap pre_univ(agents, Z, moves)),
                TrueBDD)

nfair_univ(agents, moves) ==
    IF mas.fair = <<>> THEN FalseBDD
    ELSE fixpoint(LAMBDA Z :
            UNION {pre_univ(agents,
                      stay_univ(agents, Z \cup NotFair(k), FalseBDD, moves),
                      moves) : k \in DOMAIN mas.fair},
            FalseBDD)

filter_ax(agents, states, moves) ==
    pre_univ(agents, states \cup nfair_univ(agents, moves), moves)

filter_au(agents, states_1, states_2, moves) ==
    LET s1 == ForsomeInputs(states_1)
        s2 == ForsomeInputs(states_2)
    IN IF mas.fair = <<>>
       THEN fixpoint(LAMBDA Z : s2 \cup (s1 \cap pre_univ(agents, Z, moves)),
                     FalseBDD)
       ELSE LET s12n == s1 \cup s2 \cup nfair_univ(agents, moves)
            IN fixpoint(LAMBDA Z :
                  (s2 \cup UNION {pre_univ(agents,
                                     stay_univ(agents,
                                               s12n \cap (Z \cup NotFair(k)),
                                               s2 \cap (Z \cup NotFair(k)),
                                               moves),
                                     moves) : k \in DOMAIN mas.fair})
                  \cap s12n,
                  FalseBDD)

filter_aw(agents, states_1, states_2, moves) ==
    LET s1 == ForsomeInputs(states_1)
        s2 == ForsomeInputs(states_2)
    IN IF mas.fair = <<>>
       THEN fixpoint(LAMBDA Z : s2 \cup (s1 \cap pre_univ(agents, Z, moves)),
                     TrueBDD)
       ELSE stay_univ(agents, s1 \cup s2 \cup nfair_univ(agents, moves), s2,
                      moves)

early_winning(f, agents, sub_1, sub_2, strat) ==
    CASE f.kind = "CEX" -> filter_ax(agents, sub_1, strat)
      [] f.kind = "CEU" -> filter_au(agents, sub_1, sub_2, strat)
      [] f.kind = "CEW" -> filter_aw(agents, sub_1, sub_2, strat)

\* ----- early.py ------------------------------------------------------------------
\* the while loop of complete_compatible
RECURSIVE complete_loop(_, _, _)
complete_loop(agents, moves, result) ==
    LET new_states == post_through(agents, TrueBDD, result)
                      \ ForsomeInputs(result)
        new_moves == compatible_moves(agents,
                                      new_states \cap protocol(agents), moves)
    IN IF new_moves = FalseBDD THEN result
       ELSE complete_loop(agents, moves, result \cup new_moves)

complete_compatible(agents, moves) == complete_loop(agents, moves, moves)

RECURSIVE early_evalATLK(_, _, _, _)
RECURSIVE early_orig_evalATLK(_, _, _, _)
RECURSIVE early_eval_strat(_, _, _, _)
RECURSIVE eval_alt(_, _, _, _, _, _, _)
RECURSIVE eval_alt_loop(_, _, _, _, _, _, _, _, _)
RECURSIVE early_loop(_, _, _, _, _, _, _, _, _)

\* the for loop of eval_alt over the splits of the compatible moves
eval_alt_loop(m, f, agents, states, strat, filtered, pf, subs, win) ==
    IF subs = <<>> THEN Ret(win, m)
    ELSE Then(eval_alt(m, f, agents, states, strat \cup Head(subs),
                       filtered, pf),
              LAMBDA x :
                 IF states \ (win \cup x.r) = FalseBDD
                 THEN Ret(win \cup x.r, x.m)
                 ELSE eval_alt_loop(x.m, f, agents, states \ (win \cup x.r),
                                    strat, filtered, pf, Tail(subs),
                                    win \cup x.r))

eval_alt(m, f, agents, states, strat, filtered, pf) ==
    LET completed_strat == complete_compatible(agents, strat)
        sub_states ==
            IF f.kind = "CEX"
            THEN post_through(agents, Eequiv(agents, states), completed_strat)
            ELSE ForsomeInputs(completed_strat)
        new_states == post_through(agents, TrueBDD, strat)
                      \ ForsomeInputs(strat)
        new_moves == new_states \cap filtered
        compatible == compatible_moves(agents, new_moves, strat)
    IN \* strategic filtering
       Then(WithSubs(m, f, sub_states,
                LAMBDA mm, g, S : early_evalATLK(mm, g, S, pf),
                LAMBDA s1, s2, mm :
                   Ret(naive_winning(f, agents, s1, s2, completed_strat)
                       \cap states, mm)),
            LAMBDA x :
       \* universal filtering
       Then(WithSubs(x.m, f, sub_states,
                LAMBDA mm, g, S : early_evalATLK(mm, g, S, pf),
                LAMBDA s1, s2, mm :
                   Ret(early_winning(f, agents, s1, s2, completed_strat)
                       \cap states, mm)),
            LAMBDA y :
       LET lose == states \ all_equiv_sat(agents, x.r)
           win == all_equiv_sat(agents, y.r)
       IN IF states \ (lose \cup win) = FalseBDD THEN Ret(win, y.m)
          ELSE IF compatible = FalseBDD THEN Ret(states \ lose, y.m)
          ELSE eval_alt_loop(y.m, f, agents, states \ (lose \cup win),
                             strat, filtered, pf, split(agents, compatible),
                             win)))

\* the for loop of eval_strat over the splits of the moves of equiv_states
early_loop(m, f, agents, states, equiv_states, filtered, pf, strats, sat) ==
    IF strats = <<>> THEN Ret(sat, m)
    ELSE Then(eval_alt(m, f, agents, equiv_states, Head(strats),
                       filtered, pf),
              LAMBDA x :
                 IF equiv_states \ x.r = FalseBDD
                 THEN Ret(sat \cup (x.r \cap states), x.m)
                 ELSE early_loop(x.m, f, agents, states, equiv_states \ x.r,
                                 filtered, pf, Tail(strats),
                                 sat \cup (x.r \cap states)))

early_eval_strat(m, f, states, pf) ==
    LET agents == agents_in_list(f.group)
        equiv_states == Eequiv(agents, states)
        sub_states ==
            IF f.kind = "CEX"
            THEN post_through(agents, equiv_states, protocol(agents))
            ELSE reach(states)
    IN Then(IF pf
            THEN WithSubs(m, f, sub_states,
                    LAMBDA mm, g, S : early_evalATLK(mm, g, S, pf),
                    LAMBDA s1, s2, mm :
                       Ret(naive_filtered(f, agents, s1, s2), mm))
            ELSE Ret(protocol(agents), m),
            LAMBDA found :
       LET filtered == found.r
           known == ForsomeInputs(equiv_states \cap filtered)
       IN IF pf /\ equiv_states \cap filtered = FalseBDD
          THEN Ret(FalseBDD, found.m)
          ELSE early_loop(found.m, f, agents, states, known, filtered, pf,
                          split(agents, known \cap filtered), FalseBDD))

early_orig_evalATLK(m, f, states, pf) ==
    Dispatch(m, f, states,
             LAMBDA mm, g, S : early_evalATLK(mm, g, S, pf),
             LAMBDA mm, g, S : early_eval_strat(mm, g, S, pf),
             {})

\* the wrapper with the whole states argument passed on, cached or not
early_evalATLK_all(m, f, states, pf) ==
    Then(early_orig_evalATLK(Logged(m, f, states), f, states, pf), LAMBDA x :
       Ret(x.r, Store(x.m, f, x.r, states \ x.r)))

early_evalATLK(m, f, states, pf) ==
    Memoized(m, f, states,
             LAMBDA mm, g, S : early_orig_evalATLK(mm, g, S, pf))

\* ----- backward.py: split -----------------------------------------------------
split_one_all(agents, agent, moves) ==
    IF moves = FalseBDD THEN <<<<moves, moves>>>>
    ELSE LET si == pick_one_state_inputs(moves)
             s == ForsomeInputs({si})
             eqs == get_equiv_class(<<agent>>, s)
             eqcl == moves \cap eqs
             rest == moves \ eqcl
             ncs == split_conflicting(agents, agent, eqcl)
         IN [k \in 1..(Len(ncs) + 1) |->
               IF k <= Len(ncs) THEN <<ncs[k], rest>> ELSE <<FalseBDD, rest>>]

RECURSIVE split_agent_all(_, _, _)
split_agent_all(agents, agent, moves) ==
    IF moves = FalseBDD THEN <<moves>>
    ELSE LET couples == split_one_all(agents, agent, moves)
         IN Flatten([k \in DOMAIN couples |->
               LET strats == split_agent_all(agents, agent, couples[k][2])
               IN [j \in DOMAIN strats |-> couples[k][1] \cup strats[j]]])

\* what is left of a sequence of strategies once those already seen are dropped
RECURSIVE Unseen(_, _)
Unseen(strats, seen) ==
    IF strats = <<>> THEN <<>>
    ELSE IF Head(strats) \in seen THEN Unseen(Tail(strats), seen)
    ELSE <<Head(strats)>> \o Unseen(Tail(strats), seen \cup {Head(strats)})

RECURSIVE split_all(_, _)
\* split_all that yields the moves as one strategy, conflicting or not
split_all_whole(agents, moves) == <<moves>>

\* split_all without the set of the strategies already seen
split_all_seen_none(agents, moves) ==
    IF agents = <<>> THEN <<moves>>
    ELSE LET others_strats == split_all(Tail(agents), moves)
         IN Flatten([k \in DOMAIN others_strats |->
               split_agent_all(agents, Head(agents), others_strats[k])])
split_all(agents, moves) ==
    IF agents = <<>> THEN <<moves>>
    ELSE LET others_strats == split_all(Tail(agents), moves)
         IN Unseen(Flatten([k \in DOMAIN others_strats |->
                      split_agent_all(agents, Head(agents), others_strats[k])]),
                   {FalseBDD})

\* ----- backward.py ---------------------------------------------------------------
RECURSIVE eval_backward_ceu(_, _, _, _, _, _)
RECURSIVE eval_backward_loop(_, _, _, _, _, _, _, _, _)

\* the for loop of eval_backward_ceu over the splits of the compatible moves
eval_backward_loop(agents, strat, states, sub_1, sub_2, exclude, new_moves,
                   strats, sat) ==
    IF strats = <<>> THEN sat
    ELSE LET new_strat == Head(strats)
             nsat == sat \cup eval_backward_ceu(agents, strat \cup new_strat,
                                                states, sub_1, sub_2,
                                                exclude
                                                \cup (new_moves \ new_strat))
             nstates == states \ nsat
         IN IF nstates = FalseBDD THEN nsat
            ELSE eval_backward_loop(agents, strat, nstates, sub_1, sub_2,
                                    exclude, new_moves, Tail(strats), nsat)

eval_backward_ceu(agents, strat, states, sub_1, sub_2, exclude) ==
    LET strat_states == ForsomeInputs(strat)
        notlose == filter_ceu(agents, sub_1, strat_states, protocol(agents))
        lose == states \ (all_equiv_sat(agents, notlose) \cap states)
        states1 == states \ lose
        win == all_equiv_sat(agents, strat_states) \cap states1
        states2 == states1 \ win
        new_moves == (pre_ce_moves(agents, strat, protocol(agents) \ exclude)
                      \cap sub_1) \ strat
        compatible == compatible_moves(agents, new_moves, strat)
    IN IF states1 = FalseBDD THEN states1
       ELSE IF states2 = FalseBDD THEN win
       ELSE IF compatible = FalseBDD THEN win
       ELSE eval_backward_loop(agents, strat, states2 \ win, sub_1, sub_2,
                               exclude, new_moves,
                               split_all(agents, compatible), win)

\* the recursive calls eval_backward_ceu makes, directly or not, when called
\* at the given depth: the strategy of the caller, the new_strat added to it
\* and the depth of the call made
RECURSIVE eval_backward_calls(_, _, _, _, _, _, _)
RECURSIVE eval_backward_calls_loop(_, _, _, _, _, _, _, _, _, _)

eval_backward_calls_loop(agents, strat, states, sub_1, sub_2, exclude,
                         new_moves, strats, sat, depth) ==
    IF strats = <<>> THEN {}
    ELSE LET new_strat == Head(strats)
             nexclude == exclude \cup (new_moves \ new_strat)
             nsat == sat \cup eval_backward_ceu(agents, strat \cup new_strat,
                                                states, sub_1, sub_2, nexclude)
             nstates == states \ nsat
         IN {[strat |-> strat, new_strat |-> new_strat, depth |-> depth + 1]}
            \cup eval_backward_calls(agents, strat \cup new_strat, states,
                                     sub_1, sub_2, nexclude, depth + 1)
            \cup IF nstates = FalseBDD THEN {}
                 ELSE eval_backward_calls_loop(agents, strat, nstates, sub_1,
                                               sub_2, exclude, new_moves,
                                               Tail(strats), nsat, depth)

eval_backward_calls(agents, strat, states, sub_1, sub_2, exclude, depth) ==
    LET strat_states == ForsomeInputs(strat)
        notlose == filter_ceu(agents, sub_1, strat_states, protocol(agents))
        lose == states \ (all_equiv_sat(agents, notlose) \cap states)
        states1 == states \ lose
        win == all_equiv_sat(agents, strat_states) \cap states1
        states2 == states1 \ win
        new_moves == (pre_ce_moves(agents, strat, protocol(agents) \ exclude)
                      \cap sub_1) \ strat
        compatible == compatible_moves(agents, new_moves, strat)
    IN IF states1 = FalseBDD \/ states2 = FalseBDD \/ compatible = FalseBDD
       THEN {}
       ELSE eval_backward_calls_loop(agents, strat, states2 \ win, sub_1,
                                     sub_2, exclude, new_moves,
                                     split_all(agents, compatible), win,
                                     depth)

\* the calls made from the for loop of the CEU branch of eval_strat, at depth 0
RECURSIVE backward_ceu_calls_loop(_, _, _, _, _, _)
backward_ceu_calls_loop(agents, equiv_states, sub_1, sub_2, strats, sat) ==
    IF strats = <<>> THEN {}
    ELSE LET nsat == sat \cup eval_backward_ceu(agents, Head(strats),
                                                equiv_states, sub_1, sub_2,
                                                FalseBDD)
             nequiv == equiv_states \ nsat
         IN {[strat |-> FalseBDD, new_strat |-> Head(strats), depth |-> 0]}
            \cup eval_backward_calls(agents, Head(strats), equiv_states,
                                     sub_1, sub_2, FalseBDD, 0)
            \cup IF nequiv = FalseBDD THEN {}
                 ELSE backward_ceu_calls_loop(agents, nequiv, sub_1, sub_2,
                                              Tail(strats), nsat)

backward_ceu_calls(agents, equiv_states, sub_1, sub_2) ==
    LET unsat == equiv_states
                 \ all_equiv_sat(agents,
                                 (sub_1 \cup sub_2) \cap equiv_states)
        equiv1 == equiv_states \ unsat
        sat == all_equiv_sat(agents, sub_2 \cap equiv1) \cap equiv1
    IN IF equiv1 = FalseBDD \/ equiv1 = sat THEN {}
       ELSE backward_ceu_calls_loop(agents, equiv1 \ sat, sub_1, sub_2,
                                    split(agents, sub_2 \cap protocol(agents)),
                                    sat)

\* the for loop of the CEX branch of eval_strat
RECURSIVE backward_cex_loop(_, _, _, _)
backward_cex_loop(agents, equiv_states, strats, sat) ==
    IF strats = <<>> THEN sat
    ELSE LET win == all_equiv_sat(agents, ForsomeInputs(Head(strats)))
             nsat == sat \cup (win \cap equiv_states)
             nequiv == equiv_states \ nsat
         IN IF nequiv = FalseBDD THEN nsat
            ELSE backward_cex_loop(agents, nequiv, Tail(strats), nsat)

\* the for loop of the CEU branch of eval_strat
RECURSIVE backward_ceu_loop(_, _, _, _, _, _)
backward_ceu_loop(agents, equiv_states, sub_1, sub_2, strats, sat) ==
    IF strats = <<>> THEN sat
    ELSE LET nsat == sat \cup eval_backward_ceu(agents, Head(strats),
                                                equiv_states, sub_1, sub_2,
                                                FalseBDD)
             nequiv == equiv_states \ nsat
         IN IF nequiv = FalseBDD THEN nsat
            ELSE backward_ceu_loop(agents, nequiv, sub_1, sub_2,
                                   Tail(strats), nsat)

backward_ceu(agents, states, equiv_states, sub_1, sub_2) ==
    LET unsat == equiv_states
                 \ all_equiv_sat(agents,
                                 (sub_1 \cup sub_2) \cap equiv_states)
        equiv1 == equiv_states \ unsat
        sat == all_equiv_sat(agents, sub_2 \cap equiv1) \cap equiv1
    IN IF equiv1 = FalseBDD THEN equiv1
       ELSE IF equiv1 = sat THEN sat
       ELSE backward_ceu_loop(agents, equiv1 \ sat, sub_1, sub_2,
                              split(agents, sub_2 \cap protocol(agents)),
                              sat)
            \cap states

RECURSIVE backward_evalATLK(_, _, _)
RECURSIVE backward_eval_strat(_, _, _)

backward_eval_strat(m, f, states) ==
    LET agents == agents_in_list(f.group)
        equiv_states == Eequiv(agents, states)
        sub_states ==
            IF f.kind = "CEX"
            THEN post_through(agents, equiv_states, TrueBDD)
            ELSE reach(equiv_states)
    IN WithSubs(m, f, sub_states, backward_evalATLK,
          LAMBDA s1, s2, mm :
             IF f.kind = "CEX"
             THEN Ret(backward_cex_loop(agents, equiv_states,
                         split(agents,
                               pre_ce_moves(agents,
                                            s1 \cap protocol(agents),
                                            TrueBDD)),
                         FalseBDD)
                      \cap states, mm)
             ELSE Ret(backward_ceu(agents, states, equiv_states, s1, s2), mm))

\* evalATLK of backward.py with CEW passed on to eval_strat
RECURSIVE backward_evalATLK_cew(_, _, _)
backward_evalATLK_cew(m, f, states) ==
    Dispatch(Logged(m, f, states), f, states, backward_evalATLK_cew,
             backward_eval_strat, {"CAU", "CAF", "CEG"})

\* evalATLK of backward.py: it has no memoization wrapper and no use for
\* pre_filtering
backward_evalATLK(m, f, states) ==
    Dispatch(Logged(m, f, states), f, states, backward_evalATLK,
             backward_eval_strat, {"CAU", "CAF", "CEG", "CEW"})

\* ----- symbolic.py: encoding strategies ----------------------------------------
\* The strategies of the agents are encoded in new state variables, one per
\* agent and observation met in the filtered moves, ranging over the actions
\* the agent has there.  A BDD over the states and these variables is
\* modelled by the function that gives, for each valuation of the variables,
\* its set of states.
ObsOf(agent) == {mas.obs[agent][s] : s \in States}

\* the variables of strategy_relations: variables[obs_vars]
strategy_variables(agent, filtered) ==
    [o \in ObsOf(agent) |->
        {q[2][agent] : q \in {p \in filtered : mas.obs[agent][p[1]] = o}}]

\* the valuations of the variables of one agent; an observation without
\* moves has no variable, which the value 0 stands for
strategy_relations(agent, filtered) ==
    LET variables == strategy_variables(agent, filtered)
    IN {v \in [1..NStates -> Actions \cup {0}] :
           \A o \in 1..NStates :
               IF o \in ObsOf(agent) /\ variables[o] # {}
               THEN v[o] \in variables[o] ELSE v[o] = 0}

\* the valuations of the variables encode_strategies declares
encode_strategies(agents, filtered) ==
    {[ag \in Range(agents) |-> IF ag = agents[1] THEN v1 ELSE v2] :
        v1 \in strategy_relations(agents[1], filtered),
        v2 \in strategy_relations(agents[Len(agents)], filtered)}

STrue(V) == [c \in V |-> States]
SFalse(V) == [c \in V |-> {}]
SLift(V, X) == [c \in V |-> StatesOf(X)]
SNeg(X) == [c \in DOMAIN X |-> States \ X[c]]
SAnd(X, Y) == [c \in DOMAIN X |-> X[c] \cap Y[c]]
SOr(X, Y) == [c \in DOMAIN X |-> X[c] \cup Y[c]]
SOrAll(V, Xs) == [c \in V |-> UNION {X[c] : X \in Xs}]

\* jump.pre: the state stays the same and the strategies are free
jump_pre(X) ==
    LET all == UNION {X[c] : c \in DOMAIN X} IN [c \in DOMAIN X |-> all]

\* equiv_pre that asks every agent of the group to keep its observations
equiv_pre_all(agents, X) ==
    [c \in DOMAIN X |->
        {s \in States : \E t \in X[c] : \A ag \in Range(agents) :
            mas.obs[ag][s] = mas.obs[ag][t]}]

\* equiv.pre: the observations of some agent and the strategies are kept
equiv_pre(agents, X) ==
    [c \in DOMAIN X |->
        {s \in States : \E t \in X[c] : \E ag \in Range(agents) :
            mas.obs[ag][s] = mas.obs[ag][t]}]

\* follow.pre: a transition of the system in which each agent follows the
\* strategy encoded in the state, the strategies being kept
follow_pre(agents, X) ==
    [c \in DOMAIN X |->
        {u[1] : u \in {t \in mas.trans :
            /\ t[3] \in X[c]
            /\ \A ag \in Range(agents) :
                  c[ag][mas.obs[ag][t[1]]] \in {0, t[2][ag]}}}]

SNotFair(V, k) == SNeg(SLift(V, mas.fair[k]))

\* ----- symbolic.py: eval algorithms -------------------------------------------
sym_nfair(V, agents) ==
    IF mas.fair = <<>> THEN SFalse(V)
    ELSE fixpoint(LAMBDA Z :
            SOrAll(V, {SNeg(follow_pre(agents,
                          SNeg(fixpoint(LAMBDA Y :
                                  SAnd(SOr(Z, SNotFair(V, k)),
                                       SNeg(follow_pre(agents, SNeg(Y)))),
                                  STrue(V))))) : k \in DOMAIN mas.fair}),
            SFalse(V))

\* <>_jump []_equiv (reachable => X)
SomeStrategy(V, agents, X) ==
    jump_pre(SNeg(equiv_pre(agents,
                SNeg(SOr(SNeg(SLift(V, reachable_states)), X)))))

eval_cex(V, agents, states) ==
    LET target == IF mas.fair = <<>> THEN SLift(V, states)
                  ELSE SOr(SLift(V, states), sym_nfair(V, agents))
    IN SomeStrategy(V, agents, SNeg(follow_pre(agents, SNeg(target))))

eval_ceu(V, agents, states_1, states_2) ==
    LET s1 == SLift(V, states_1)
        s2 == SLift(V, states_2)
    IN IF mas.fair = <<>>
       THEN SomeStrategy(V, agents,
               fixpoint(LAMBDA Z :
                           SOr(s2, SAnd(s1, SNeg(follow_pre(agents, SNeg(Z))))),
                        SFalse(V)))
       ELSE LET s12n == SOr(SOr(s1, s2), sym_nfair(V, agents))
            IN SomeStrategy(V, agents,
                  fixpoint(LAMBDA Z :
                     SAnd(s12n,
                          SOr(s2,
                              SOrAll(V, {SNeg(follow_pre(agents,
                                 SNeg(fixpoint(LAMBDA Y :
                                    SAnd(SAnd(SOr(Z, SNotFair(V, k)), s12n),
                                         SOr(s2, SNeg(follow_pre(agents,
                                                         SNeg(Y))))),
                                    STrue(V))))) : k \in DOMAIN mas.fair}))),
                     SFalse(V)))

eval_cew(V, agents, states_1, states_2) ==
    LET s1 == SLift(V, states_1)
        s2 == SLift(V, states_2)
    IN IF mas.fair = <<>>
       THEN SomeStrategy(V, agents,
               fixpoint(LAMBDA Z :
                           SOr(s2, SAnd(s1, SNeg(follow_pre(agents, SNeg(Z))))),
                        STrue(V)))
       ELSE LET s12n == SOr(SOr(s1, s2), sym_nfair(V, agents))
            IN SomeStrategy(V, agents,
                  fixpoint(LAMBDA Z :
                              SAnd(s12n,
                                   SOr(s2, SNeg(follow_pre(agents, SNeg(Z))))),
                           STrue(V)))

\* ----- symbolic.py: CTL algorithms --------------------------------------------
sym_fair ==
    IF mas.fair = <<>> THEN TrueBDD
    ELSE fixpoint(LAMBDA Z :
            {p \in TrueBDD : \A k \in DOMAIN mas.fair :
                p \in pre(fixpoint(LAMBDA Y :
                             (Z \cap ForsomeInputs(mas.fair[k])) \cup pre(Y),
                             FalseBDD))},
            TrueBDD)

sym_ex(states) == pre(states \cap sym_fair)

sym_eu(states_1, states_2) ==
    fixpoint(LAMBDA Y : (states_2 \cap sym_fair) \cup (states_1 \cap pre(Y)),
             FalseBDD)

sym_ew(states_1, states_2) ==
    IF mas.fair = <<>>
    THEN fixpoint(LAMBDA Z : states_2 \cup (states_1 \cap pre(Z)), TrueBDD)
    ELSE fixpoint(LAMBDA Z :
            ({p \in TrueBDD : \A k \in DOMAIN mas.fair :
                p \in pre(fixpoint(LAMBDA Y :
                             (states_2 \cap sym_fair)
                             \cup (Z \cap ForsomeInputs(mas.fair[k]))
                             \cup (states_1 \cap pre(Y)),
                             FalseBDD))}
             \cap states_1)
            \cup (states_2 \cap sym_fair),
            TrueBDD)

\* ----- symbolic.py ---------------------------------------------------------------
RECURSIVE symbolic_evalATLK(_, _, _)
RECURSIVE symbolic_orig_evalATLK(_, _, _)
RECURSIVE symbolic_eval_strat(_, _, _)

symbolic_winning(f, V, agents, sub_1, sub_2) ==
    CASE f.kind = "CEX" -> eval_cex(V, agents, sub_1)
      [] f.kind = "CEU" -> eval_ceu(V, agents, sub_1, sub_2)
      [] f.kind = "CEW" -> eval_cew(V, agents, sub_1, sub_2)

\* The sub-formulas are evaluated by the memoized evalATLK for the filter
\* and again for the winning states; the second calls hit the cache.
symbolic_eval_strat(m, f, pre_filtering) ==
    LET agents == agents_in_list(f.group)
    IN Then(symbolic_evalATLK(m, Left(f), pre_filtering), LAMBDA x1 :
       Then(IF f.kind = "CEX" THEN x1
            ELSE symbolic_evalATLK(x1.m, f.right, pre_filtering), LAMBDA x2 :
       LET filtered == IF pre_filtering
                       THEN naive_filtered(f, agents, x1.r, x2.r)
                       ELSE protocol(agents)
           V == encode_strategies(agents, filtered)
           winning == symbolic_winning(f, V, agents, x1.r, x2.r)
       IN IF pre_filtering /\ filtered = FalseBDD THEN Ret(filtered, x2.m)
          ELSE Ret(Lift(UNION {winning[c] : c \in V}) \cap reachable_states,
                   x2.m)))

symbolic_orig_evalATLK(m, f, pf) ==
    LET ev(mm, g) == symbolic_evalATLK(mm, g, pf)
        Un(Op(_)) == Bind1(ev(m, f.child), Op)
        Bin(Op(_, _)) ==
            Bind2(ev(m, f.left), LAMBDA mm : ev(mm, f.right), Op)
    IN CASE f.kind = "True" -> Ret(TrueBDD, m)
         [] f.kind = "False" -> Ret(FalseBDD, m)
         [] f.kind = "Init" -> Ret(Lift(mas.init), m)
         [] f.kind = "Reachable" -> Ret(reachable_states, m)
         [] f.kind = "Atom" -> Ret(eval_simple_expression(f.value), m)
         [] f.kind \in {"And", "Or", "Implies", "Iff", "EU", "EW", "AW"} ->
               Bin(LAMBDA a, b :
                  CASE f.kind = "And" -> a \cap b
                    [] f.kind = "Or" -> a \cup b
                    [] f.kind = "Implies" -> Neg(a) \cup b
                    [] f.kind = "Iff" -> (a \cap b) \cup (Neg(a) \cap Neg(b))
                    [] f.kind = "EU" -> sym_eu(a, b)
                    [] f.kind = "EW" -> sym_ew(a, b)
                    [] f.kind = "AW" ->
                          Neg(sym_eu(Neg(b), Neg(a) \cap Neg(b))))
         [] f.kind \in {"Not", "EX", "AX", "nK", "K", "nE", "E", "nD", "D",
                        "nC", "C"} ->
               Un(LAMBDA a :
                  CASE f.kind = "Not" -> Neg(a)
                    [] f.kind = "EX" -> sym_ex(a)
                    [] f.kind = "AX" -> Neg(sym_ex(Neg(a)))
                    [] f.kind = "nK" -> nk(f.agent, a)
                    [] f.kind = "K" -> Neg(nk(f.agent, Neg(a)))
                    [] f.kind = "nE" -> ne(f.group, a)
                    [] f.kind = "E" -> Neg(ne(f.group, Neg(a)))
                    [] f.kind = "nD" -> nd(f.group, a)
                    [] f.kind = "D" -> Neg(nd(f.group, Neg(a)))
                    [] f.kind = "nC" -> nc(f.group, a)
                    [] f.kind = "C" -> Neg(nc(f.group, Neg(a))))
         [] f.kind \in {"EG", "AG", "AU", "EF", "AF", "CEG", "CEF"}
               \cup NegatedKinds ->
               Bind1(ev(m, CASE f.kind = "EG" ->
                                   Binary("EW", f.child, FalseExp)
                             [] f.kind = "AG" -> EF(Not(f.child))
                             [] f.kind = "AU" ->
                                   Binary("EW", Not(f.right),
                                          And(Not(f.left), Not(f.right)))
                             [] f.kind = "EF" -> EU(TrueExp, f.child)
                             [] f.kind = "AF" -> EG(Not(f.child))
                             [] OTHER -> Rewritten(f)),
                     LAMBDA a :
                        IF f.kind \in {"AG", "AU", "AF"} \cup NegatedKinds
                        THEN Neg(a) ELSE a)
         [] IsStrat(f) -> symbolic_eval_strat(m, f, pf)
         [] OTHER -> Raise("Exception", m)

\* __cached_evalATLK of symbolic.py
symbolic_evalATLK(m, f, pre_filtering) ==
    IF InCache(m, f) THEN Ret(CacheOf(m, f).sat, m)
    ELSE Then(symbolic_orig_evalATLK(Logged(m, f, TrueBDD), f, pre_filtering),
              LAMBDA x : Ret(x.r, Store(x.m, f, x.r, FalseBDD)))

\* ----- the systems and inputs the checks range over ------------------------
PickKeys == 1..4

\* observations: blind, the first two states merged, perfect
ObsMaps == {[s \in States |-> 1],
            [s \in States |-> IF s <= 2 THEN 1 ELSE s],
            [s \in States |-> s]}

\* atoms: "p<k>" holds in state k only
Atoms == {"p1", "p2", "p3"}
Val == [p1 |-> {1}, p2 |-> {2}, p3 |-> {3}]

Impls == {"naive", "partial", "early", "backward", "symbolic"}
\* the caches of a fresh process
NoCache == [i \in Impls |-> EmptyMemo]

\* every input loops on every state
LoopTrans == {<<p[1], p[2], p[1]>> : p \in TrueBDD}

\* ----- specification of the split enumeration ------------------------------
MaxMoves == 4

Coalitions == {<<"a">>, <<"a", "b">>, <<"b", "a">>}

\* the move sets of a coalition: closed under the actions of the others
MoveSets(agents) ==
    IF Len(agents) = 1
    THEN {{p \in TrueBDD : <<p[1], p[2][agents[1]]>> \in C} :
             C \in SUBSET (States \X Actions)}
    ELSE {M \in SUBSET TrueBDD : Cardinality(M) <= MaxMoves}

InitSplit ==
    /\ \E oa \in ObsMaps, ob \in ObsMaps \ {[s \in States |-> 1]},
          init \in {{1, 3}, States} :
          mas = MkMas(LoopTrans, [a |-> oa, b |-> ob], init, <<>>, Val)
    /\ pickKey \in PickKeys
    /\ op = "init"
    /\ args = <<>>
    /\ out = <<>>
    /\ cache = NoCache
    /\ calls = {}

Split(agents, moves) ==
    /\ op = "init"
    /\ op' = "split"
    /\ args' = [agents |-> agents, moves |-> moves]
    /\ out' = split(agents, moves)
    /\ UNCHANGED <<mas, pickKey, cache, calls>>

NextSplit == \E agents \in Coalitions : \E moves \in MoveSets(agents) :
                Split(agents, moves)

SpecSplit == InitSplit /\ [][NextSplit]_vars

\* ----- specification of the evaluation of one formula -----------------------
\* the transitions out of state s: looping, decided by the action of a, by
\* the action of b, or by whether the two actions match
Row(s, kind, t1, t2) ==
    {<<s, i, CASE kind = "loop" -> s
               [] kind = "a" -> IF i["a"] = 1 THEN t1 ELSE t2
               [] kind = "b" -> IF i["b"] = 1 THEN t1 ELSE t2
               [] OTHER -> IF i["a"] = i["b"] THEN t1 ELSE t2>> : i \in Inputs}

\* the states after the third, if any, loop
Rest == UNION {Row(s, "loop", s, s) : s \in 4..NStates}

EvalTrans ==
    {Row(1, k1, 2, 1) \cup Row(2, k2, 3, 1) \cup Row(3, "b", 1, 3) \cup Rest :
        k1 \in {"a", "match"}, k2 \in {"loop", "a"}}

\* a observes nothing, or tells state 3 from the others; b observes the state
EvalObs == {[s \in States |-> 1], [s \in States |-> IF s <= 2 THEN 1 ELSE s]}
EvalFair == {<<>>, <<Lift({3})>>}

GA == <<"a">>
GAB == <<"a", "b">>
EvalGroups == {GA, GAB}

EvalFormulas ==
    UNION {{CEX(g, Atom("p3")),
            CEU(g, Atom("p2"), Atom("p3")),
            CEW(g, Atom("p2"), Atom("p1")),
            CEG(g, Not(Atom("p3"))),
            Group1("CAX", g, Atom("p3")),
            CEX(g, CEX(GA, Atom("p3")))} : g \in EvalGroups}
    \cup {Unary("AX", Atom("p3"))}

\* one initial state, or two that agent a tells apart, without fairness
EvalInits(oa, fair) ==
    IF fair = <<>> /\ oa # [s \in States |-> 1] THEN {{1}, {1, 3}} ELSE {{1}}

InitEval ==
    /\ \E trans \in EvalTrans, oa \in EvalObs, fair \in EvalFair :
          \E init \in EvalInits(oa, fair) :
             mas = MkMas(trans, [a |-> oa, b |-> [s \in States |-> s]],
                         init, fair, Val)
    /\ pickKey \in {1, 2}
    /\ op = "init"
    /\ args = <<>>
    /\ out = <<>>
    /\ cache = NoCache
    /\ calls = {}

\* the implementations of __init__.py; states is None where it is a
\* parameter, so the initial states are used
implementations(impl, m, f, pf) ==
    CASE impl = "naive" -> naive_evalATLK(m, f, pf)
      [] impl = "partial" -> partial_evalATLK(m, f, Lift(mas.init), pf)
      [] impl = "early" -> early_evalATLK(m, f, Lift(mas.init), pf)
      [] impl = "symbolic" -> symbolic_evalATLK(m, f, pf)
      [] impl = "backward" -> backward_evalATLK(m, f, Lift(mas.init))

\* check that asks for sat to hold every state, initial or not
check_everywhere(impl, m, f, pf) ==
    Then(implementations(impl, m, f, pf) @@ [verdict |-> FALSE], LAMBDA x :
       [x EXCEPT !.verdict = (Neg(x.r) = FalseBDD)])

\* check of __init__.py: sat is what the implementation returned and
\* verdict what check returns, unless the implementation raised
check(impl, m, f, pf) ==
    Then(implementations(impl, m, f, pf) @@ [verdict |-> FALSE], LAMBDA x :
       [x EXCEPT !.verdict = (Neg(x.r) \cap Lift(mas.init) = FalseBDD)])

\* one call of check in a fresh process, which returned or raised x
Checked(impl, f, pf, x) ==
    /\ op = "init"
    /\ op' = impl
    /\ args' = [formula |-> f, pre_filtering |-> pf]
    /\ out' = [err |-> x.err, r |-> x.r, verdict |-> x.verdict]
    /\ cache' = [cache EXCEPT ![impl] = x.m]
    /\ UNCHANGED <<mas, pickKey, calls>>

Check(impl, f, pf) == Checked(impl, f, pf, check(impl, cache[impl], f, pf))

NextEval ==
    \E impl \in Impls, f \in EvalFormulas, pf \in BOOLEAN : Check(impl, f, pf)

SpecEval == InitEval /\ [][NextEval]_vars

\* ----- specification of repeated calls on one formula --------------------------
MaxCalls == 3

CacheTrans ==
    {Row(1, "a", 2, 3) \cup Row(2, k2, 3, 1) \cup Row(3, "b", 1, 3) \cup Rest :
        k2 \in {"loop", "a"}}

CacheFormulas == {CEX(GA, Atom("p3")),
                  CEU(GA, Atom("p2"), Atom("p3")),
                  Group1("CAX", GA, Atom("p3")),
                  EU(Atom("p2"), Atom("p3"))}

\* the states arguments of the calls
CallStates == {{1}, {1, 2}, {2, 3}}

InitCache ==
    /\ \E trans \in CacheTrans, oa \in EvalObs, fair \in EvalFair :
          mas = MkMas(trans, [a |-> oa, b |-> [s \in States |-> s]],
                      {1}, fair, Val)
    /\ pickKey = 1
    /\ op = "init"
    /\ args = <<>>
    /\ out = <<>>
    /\ cache = NoCache
    /\ calls = {}

\* evalATLK of an implementation called with states; naive and symbolic
\* have no such parameter
evalATLK(impl, m, f, states, pf) ==
    CASE impl = "naive" -> naive_evalATLK(m, f, pf)
      [] impl = "partial" -> partial_evalATLK(m, f, states, pf)
      [] impl = "early" -> early_evalATLK(m, f, states, pf)
      [] impl = "symbolic" -> symbolic_evalATLK(m, f, pf)
      [] impl = "backward" -> backward_evalATLK(m, f, states)

\* call n of evalATLK, which returned or raised x
Returned(impl, f, states, pf, n, x) ==
    /\ op' = impl
    /\ args' = [formula |-> f, states |-> states, pre_filtering |-> pf,
                n |-> n]
    /\ out' = [err |-> x.err, r |-> x.r, named |-> Named(x)]
    /\ cache' = [cache EXCEPT ![impl] = x.m]
    /\ calls' = IF x.err = ""
                THEN calls \cup {[states |-> states, r |-> x.r]}
                ELSE calls
    /\ UNCHANGED <<mas, pickKey>>

\* the first call on a system fixes the implementation and the formula
FirstCall(impl, f, states, pf) ==
    /\ op = "init"
    /\ Returned(impl, f, states, pf, 1,
                evalATLK(impl, cache[impl], f, states, pf))

NextCall(states) ==
    /\ op \in Impls
    /\ args.n < MaxCalls
    /\ Returned(op, args.formula, states, args.pre_filtering, args.n + 1,
                evalATLK(op, cache[op], args.formula, states,
                         args.pre_filtering))

NextCache ==
    \/ \E impl \in Impls, f \in CacheFormulas, S \in CallStates,
          pf \in BOOLEAN : FirstCall(impl, f, Lift(S), pf)
    \/ \E S \in CallStates : NextCall(Lift(S))

SpecCache == InitCache /\ [][NextCache]_vars

\* ----- specification of one call of evalATLK on each kind of formula ------------
\* the derived CTL kinds, the derived and primitive strategic kinds, the
\* other kinds of the dispatchers and formulas that nest them
KindFormulas ==
    {Unary("AX", Atom("p3")), Unary("AG", Atom("p3")),
     Unary("AF", Atom("p3")), Binary("AU", Atom("p2"), Atom("p3")),
     Group1("CAX", GA, Atom("p3")), Group1("CAG", GA, Atom("p3")),
     Group1("CAF", GA, Atom("p3")),
     Group2("CAU", GA, Atom("p2"), Atom("p3")),
     Group2("CAW", GA, Atom("p2"), Atom("p3")),
     CEG(GA, Not(Atom("p3"))), CEF(GA, Atom("p3")),
     CEX(GA, Atom("p3")), CEU(GAB, Atom("p2"), Atom("p3")),
     CEW(GA, Atom("p2"), Atom("p1")),
     TrueExp, Atom("p3"), Not(Atom("p3")), Or(Atom("p2"), Atom("p3")),
     EX(Atom("p3")), EG(Not(Atom("p3"))), EU(Atom("p2"), Atom("p3")),
     nK("a", Atom("p3")),
     CEX(GA, CEG(GA, Not(Atom("p3")))),
     Not(Group1("CAF", GA, Atom("p3"))),
     And(Atom("p1"), CEW(GA, Atom("p2"), Atom("p1"))),
     And(Atom("p3"), CEW(GA, Atom("p2"), Atom("p1"))),
     Unary("AX", CEG(GA, Not(Atom("p3")))),
     Group1("CAX", GA, Group1("CAG", GA, Atom("p3")))}

InitKinds ==
    /\ \E trans \in CacheTrans, oa \in EvalObs, fair \in EvalFair :
          mas = MkMas(trans, [a |-> oa, b |-> [s \in States |-> s]],
                      {1}, fair, Val)
    /\ pickKey = 1
    /\ op = "init"
    /\ args = <<>>
    /\ out = <<>>
    /\ cache = NoCache
    /\ calls = {}

NextKinds ==
    \E impl \in Impls, f \in KindFormulas, S \in CallStates, pf \in BOOLEAN :
       FirstCall(impl, f, Lift(S), pf)

SpecKinds == InitKinds /\ [][NextKinds]_vars

\* ----- specification of the filters on arbitrary arguments ----------------------
MaxFilterMoves == 1

\* in state 2 agent a has both actions, or its first action only
FilterTrans ==
    {Row(1, "match", 2, 1)
     \cup {t \in Row(2, "a", 3, 1) : k2 = "a" \/ t[2]["a"] = 1}
     \cup Row(3, "b", 1, 3) \cup Rest :
        k2 \in {"a", "first"}}

FilterFair == {<<>>, <<Lift({3})>>, <<Lift({1}), Lift({2, 3})>>}

\* the moves given to a filter: closed under the actions of the others for
\* one agent, any small set of moves for both
FilterMoves(agents) ==
    IF Len(agents) = 1 THEN MoveSets(agents)
    ELSE {M \in SUBSET TrueBDD : Cardinality(M) <= MaxFilterMoves}

InitFilter ==
    /\ \E trans \in FilterTrans, fair \in FilterFair :
          mas = MkMas(trans, [a |-> [s \in States |-> 1],
                              b |-> [s \in States |-> s]],
                      {1}, fair, Val)
    /\ pickKey = 1
    /\ op = "init"
    /\ args = <<>>
    /\ out = <<>>
    /\ cache = NoCache
    /\ calls = {}

\* the four filters of common.py on the same arguments
Filter(agents, states_1, states_2, moves) ==
    /\ op = "init"
    /\ op' = "filter"
    /\ args' = [agents |-> agents, states_1 |-> states_1,
                states_2 |-> states_2, moves |-> moves]
    /\ out' = [pre |-> pre_ce(agents, states_1, moves),
               cex |-> filter_cex(agents, states_1, moves),
               ceu |-> filter_ceu(agents, states_1, states_2, moves),
               cew |-> filter_cew(agents, states_1, states_2, moves)]
    /\ UNCHANGED <<mas, pickKey, cache, calls>>

NextFilter ==
    /\ op = "init"
    /\ \E agents \in {GA, GAB} : \E moves \in FilterMoves(agents) :
          \E S1 \in SUBSET States, S2 \in SUBSET States :
             Filter(agents, Lift(S1), Lift(S2), moves)

SpecFilter == InitFilter /\ [][NextFilter]_vars

\* ----- the semantics of the strategic operators ------------------------------
\* A uniform memoryless strategy of a coalition gives each agent one enabled
\* action per observation.
ObsValues == {mas.obs[ag][s] : ag \in Agts, s \in States}
Strategies(agents) ==
    {c \in [Range(agents) -> [ObsValues -> Actions]] :
        \A s \in States : \A ag \in Range(agents) :
            c[ag][mas.obs[ag][s]] \in Enabled(mas.trans, ag, s)}

\* the steps <<s, s'>> of the paths that follow strategy c
Outcome(agents, c) ==
    {<<t[1], t[3]>> : t \in {u \in mas.trans : \A ag \in Range(agents) :
                                u[2][ag] = c[ag][mas.obs[ag][u[1]]]}}
Succ(E, S) == {e[2] : e \in {d \in E : d[1] \in S}}

\* the states reached from S by steps of E that stay inside R
RECURSIVE ReachIn(_, _, _)
ReachIn(E, R, S) ==
    LET N == S \cup (Succ(E, S) \cap R)
    IN IF N = S THEN S ELSE ReachIn(E, R, N)
ReachPlus(E, R, s) == ReachIn(E, R, Succ(E, {s}) \cap R)

\* the states of R on a cycle inside R that meets every fairness constraint
FairCycle(E, R) ==
    {s \in R : /\ s \in ReachPlus(E, R, s)
               /\ \A k \in DOMAIN mas.fair :
                    \E t \in StatesOf(mas.fair[k]) \cap ReachPlus(E, R, s) :
                        s \in ReachPlus(E, R, t)}
\* the states that start a fair path of E inside R
FairPathIn(E, R) == {s \in R : ReachIn(E, R, {s}) \cap FairCycle(E, R) # {}}
\* the states of A that start a path of E inside A to a state of B
ReachThrough(E, A, B) == {s \in A : ReachIn(E, A, {s}) \cap B # {}}

\* the states from which every fair path of E satisfies X P, P U Q, P W Q
WinX(E, P) == {s \in States : Succ(E, {s}) \subseteq
                                 P \cup (States \ FairPathIn(E, States))}
Refuted(E, P, Q) ==
    ReachThrough(E, States \ Q,
                 (States \ (P \cup Q)) \cap FairPathIn(E, States))
WinW(E, P, Q) == States \ Refuted(E, P, Q)
WinU(E, P, Q) == WinW(E, P, Q) \ FairPathIn(E, States \ Q)
Win(kind, E, P, Q) ==
    CASE kind = "CEX" -> WinX(E, P)
      [] kind = "CEU" -> WinU(E, P, Q)
      [] kind = "CEW" -> WinW(E, P, Q)

\* the states some agent of the coalition cannot distinguish from s
Indistinguishable(agents, s) ==
    {t \in States : \E ag \in Range(agents) : mas.obs[ag][t] = mas.obs[ag][s]}

\* the states s with a strategy that wins from every reachable state some
\* agent of the coalition cannot distinguish from s
StratSat(kind, agents, P, Q) ==
    {s \in States : \E c \in Strategies(agents) :
        (Indistinguishable(agents, s) \cap mas.reach)
            \subseteq Win(kind, Outcome(agents, c), P, Q)}

\* ----- claims about the evaluation -------------------------------------------
\* the value the call found for a sub-formula of its formula
SubValue(impl, g) == StatesOf(CacheOf(cache[impl], g).sat)
Expected(impl, f) ==
    StratSat(f.kind, agents_in_list(f.group), SubValue(impl, Left(f)),
             IF f.kind = "CEX" THEN {} ELSE SubValue(impl, f.right))

\* C1 as stated: for <G>psi, naive.evalATLK returns exactly the states with a
\* uniform strategy of G all of whose fair paths, from every reachable state
\* some agent of G cannot distinguish from them, satisfy psi.
C1_Original ==
    (op = "naive" /\ IsStrat(args.formula)) =>
        out.r = Lift(Expected("naive", args.formula))
\* C1 on the reachable states
C1_Reachable ==
    (op = "naive" /\ IsStrat(args.formula)) =>
        out.r \cap reachable_states
            = Lift(Expected("naive", args.formula) \cap mas.reach)
\* naive evaluated a strategic formula for an agent with imperfect
\* information: some but not all reachable states satisfy it, and one strategy
\* wins in a reachable state that does not
C1_Witness ==
    /\ op = "naive" /\ IsStrat(args.formula) /\ out.err = ""
    /\ args.formula.group = GA
    /\ out.r \cap reachable_states \notin {FalseBDD, reachable_states}
    /\ \E k \in DOMAIN split(GA, protocol(GA)) :
          naive_winning(args.formula, GA,
                        Lift(SubValue("naive", Left(args.formula))),
                        IF args.formula.kind = "CEX" THEN FalseBDD
                        ELSE Lift(SubValue("naive", args.formula.right)),
                        split(GA, protocol(GA))[k])
             \cap reachable_states
          \notin SUBSET out.r

\* the same check by implementation impl in a fresh process
Fresh(impl, f, pf) == check(impl, EmptyMemo, f, pf)

\* the kinds of the nodes of a formula
RECURSIVE Kinds(_)
Kinds(f) ==
    {f.kind}
    \cup (IF "child" \in DOMAIN f THEN Kinds(f.child) ELSE {})
    \cup (IF "left" \in DOMAIN f THEN Kinds(f.left) \cup Kinds(f.right) ELSE {})
\* the kinds backward.evalATLK documents as not implemented
BackwardUnsupported == {"CAU", "CAF", "CEW", "CEG"}
Supported(impl, f) ==
    impl # "backward" \/ Kinds(f) \cap BackwardUnsupported = {}

\* C2 as stated: for every system, formula and pre_filtering, every
\* implementation that supports the formula returns the set naive returns.
C2_Original ==
    (op \in Impls /\ Supported(op, args.formula)) =>
        /\ out.err = ""
        /\ out.r = Fresh("naive", args.formula, args.pre_filtering).r

\* C3 as stated: whenever check returns for an implementation that supports
\* the formula, its verdict is the verdict of every other implementation, so
\* the verdict of naive, at the same pre_filtering.
C3_Original ==
    (op \in Impls /\ Supported(op, args.formula) /\ out.err = "") =>
        out.verdict = Fresh("naive", args.formula, args.pre_filtering).verdict

\* the strategies of naive.eval_strat without pre-filtering, and the moves
\* pre-filtering keeps, for the formula of the call
C4_Agents == agents_in_list(args.formula.group)
C4_Sub1 == Lift(SubValue("naive", Left(args.formula)))
C4_Sub2 ==
    IF args.formula.kind = "CEX" THEN FalseBDD
    ELSE Lift(SubValue("naive", args.formula.right))
C4_Filtered == naive_filtered(args.formula, C4_Agents, C4_Sub1, C4_Sub2)
C4_Strats == split(C4_Agents, protocol(C4_Agents))

\* no strategy wins in the state of one of its moves outside filtered
NoWinnerRemoved(f, agents, sub_1, sub_2, filtered, strats) ==
    \A k \in DOMAIN strats :
        StatesOf(strats[k] \ filtered)
        \cap StatesOf(naive_winning(f, agents, sub_1, sub_2, strats[k])) = {}

\* C4: for naive, partial, early and symbolic the set returned with
\* pre_filtering=true is the set returned with pre_filtering=false; and no
\* strategy wins in the state of one of its moves that pre-filtering removes.
C4_PreFiltering ==
    /\ (op \in {"naive", "partial", "early", "symbolic"} /\ out.err = ""
        /\ args.pre_filtering) =>
          out.r = Fresh(op, args.formula, FALSE).r
    /\ (op = "naive" /\ IsStrat(args.formula) /\ args.pre_filtering) =>
          NoWinnerRemoved(args.formula, C4_Agents, C4_Sub1, C4_Sub2,
                          C4_Filtered, C4_Strats)
\* naive returned a non-empty set with pre-filtering on, after the filter
\* removed some but not all moves of the protocol
C4_Witness ==
    /\ op = "naive" /\ IsStrat(args.formula) /\ args.pre_filtering
    /\ out.r \cap reachable_states # FalseBDD
    /\ C4_Filtered \notin {FalseBDD, protocol(C4_Agents)}

\* C18: check returns True exactly when every initial state belongs to the
\* set the implementation returned.
C18_Verdict ==
    (op \in Impls /\ out.err = "") =>
        (out.verdict <=> \A s \in mas.init : \A i \in Inputs :
                            <<s, i>> \in out.r)
\* two initial states of which one only satisfies the formula
C18_Witness ==
    /\ op \in Impls /\ out.err = "" /\ ~out.verdict
    /\ Cardinality(mas.init) = 2
    /\ Lift(mas.init) \cap out.r # FalseBDD

\* ----- claims about the memoization ----------------------------------------------
\* the states queried by the calls completed so far
Queried == UNION {c.states : c \in calls}
\* the un-memoized evalATLK of partial or early, called directly
Unmemoized(impl, f, states, pf) ==
    IF impl = "partial" THEN partial_orig_evalATLK(EmptyMemo, f, states, pf)
    ELSE early_orig_evalATLK(EmptyMemo, f, states, pf)

\* C8 as stated: each call of the memoized partial or early evalATLK returns
\* the set the un-memoized algorithm returns on the union of the states
\* queried so far.
C8_Original ==
    (op \in {"partial", "early"} /\ out.err = "") =>
        out.r = Unmemoized(op, args.formula, Queried, args.pre_filtering).r

\* the invocations of the un-memoized evalATLK on formula g logged in m
InvocationsOf(m, g) == {k \in DOMAIN m.log : m.log[k].f = g}
LoggedFormulas(m) == {m.log[k].f : k \in DOMAIN m.log}

\* C9: the un-memoized partial and early evalATLK are invoked on
\* remaining = states - (sat | unsat) only: no state is passed twice for one
\* formula, only queried states are passed for the formula of the calls, the
\* states returned are folded into sat and the rest of remaining into unsat.
C9_RemainingOnly ==
    (op \in {"partial", "early"} /\ out.err = "") =>
        LET m == cache[op]
            e == CacheOf(m, args.formula)
            passed == UNION {m.log[k].states
                             : k \in InvocationsOf(m, args.formula)}
        IN /\ \A g \in LoggedFormulas(m) : \A j, k \in InvocationsOf(m, g) :
                 /\ m.log[k].states # FalseBDD
                 /\ j # k => m.log[j].states \cap m.log[k].states = FalseBDD
           /\ passed \subseteq Queried
           /\ e.sat = out.r
           /\ UNION {c.r : c \in calls} \subseteq e.sat
           /\ e.unsat = passed \ UNION {c.r : c \in calls}
           /\ Queried \subseteq e.sat \cup e.unsat
\* a later call whose states overlap the classified ones: only the rest was
\* passed on
C9_Witness ==
    /\ op \in {"partial", "early"} /\ out.err = "" /\ args.n >= 2
    /\ \E k \in InvocationsOf(cache[op], args.formula) :
          /\ cache[op].log[k].states # args.states
          /\ cache[op].log[k].states \subseteq args.states
    /\ CacheOf(cache[op], args.formula).sat # FalseBDD
    /\ CacheOf(cache[op], args.formula).unsat # FalseBDD

CallOn(g) == evalATLK(op, EmptyMemo, g, args.states, args.pre_filtering)

\* the rewrite of a derived kind
DerivedAs(f) ==
    CASE f.kind = "AX" -> Not(EX(Not(f.child)))
      [] f.kind = "AG" -> Not(EF(Not(f.child)))
      [] f.kind = "AF" -> Not(EG(Not(f.child)))
      [] f.kind = "AU" ->
            Not(Or(EU(Not(f.right), And(Not(f.left), Not(f.right))),
                   EG(Not(f.right))))
      [] f.kind = "CAX" -> Not(CEX(f.group, Not(f.child)))
      [] f.kind = "CAG" -> Not(CEF(f.group, Not(f.child)))
      [] f.kind = "CAF" -> Not(CEG(f.group, Not(f.child)))
      [] f.kind = "CAU" ->
            Not(CEW(f.group, Not(f.right), And(Not(f.left), Not(f.right))))
      [] f.kind = "CAW" ->
            Not(CEU(f.group, Not(f.right), And(Not(f.left), Not(f.right))))
      [] f.kind = "CEG" -> CEW(f.group, f.child, FalseExp)
      [] f.kind = "CEF" -> CEU(f.group, TrueExp, f.child)

\* C11 as stated: for every dispatcher, formula and states argument,
\* evalATLK(Not(Not(phi))) returns what evalATLK(phi) returns.
C11_Original ==
    (op \in Impls /\ out.err = "") =>
        /\ CallOn(Not(Not(args.formula))).err = ""
        /\ CallOn(Not(Not(args.formula))).r = out.r

\* C12 as stated: in each of the five dispatchers AX, AG, AF and AU are
\* evaluated without error and give the set their rewrite gives.
C12_Original ==
    (op \in Impls /\ args.formula.kind \in {"AX", "AG", "AF", "AU"}) =>
        /\ out.err = ""
        /\ CallOn(DerivedAs(args.formula)).err = ""
        /\ CallOn(DerivedAs(args.formula)).r = out.r

\* C13 as stated: in every dispatcher that supports them, CAX, CAG, CAF, CAU,
\* CAW, CEG and CEF give the set their rewrite gives on the same states.
C13_Original ==
    (/\ op \in Impls
     /\ args.formula.kind
           \in {"CAX", "CAG", "CAF", "CAU", "CAW", "CEG", "CEF"}
     /\ Supported(op, args.formula)
     /\ Supported(op, DerivedAs(args.formula))) =>
        /\ out.err = ""
        /\ CallOn(DerivedAs(args.formula)).r = out.r

\* C14 as stated: partial, early and backward return a subset of the states
\* given, for every kind of formula.
C14_Original ==
    (op \in {"partial", "early", "backward"} /\ out.err = "") =>
        out.r \subseteq args.states

\* the invocations of backward.evalATLK made by the call
Reached == {cache["backward"].log[k].f : k \in DOMAIN cache["backward"].log}
LastReached == cache["backward"].log[Len(cache["backward"].log)].f

\* C19: backward.evalATLK raises the unsupported-formula error exactly when
\* the evaluation reaches a node of kind CAU, CAF, CEW or CEG, and the error
\* names that node; CEX, CEU, CEF, CAX, CAG and CAW without such a node
\* below them are evaluated without it.
C19_Unsupported ==
    op = "backward" =>
        /\ out.err = "NotImplementedError"
              <=> \E g \in Reached : g.kind \in BackwardUnsupported
        /\ out.err = "NotImplementedError" =>
              /\ out.named = LastReached
              /\ out.named.kind \in BackwardUnsupported
        /\ (/\ args.formula.kind \in {"CEX", "CEU", "CEF", "CAX", "CAG", "CAW"}
            /\ Supported("backward", args.formula)) => out.err = ""
\* the error raised for a node below the top of the formula
C19_Witness ==
    /\ op = "backward" /\ out.err = "NotImplementedError"
    /\ out.named # args.formula
    /\ args.formula.kind = "CEX"

\* ----- claims about the filters ---------------------------------------------------
\* the states argument with one more state
Grown(X) == {X \cup Lift({s}) : s \in States}

\* C15: filter_ceu(s1, s2, M) contains s2 and is monotone in s1 and in s2,
\* with and without fairness constraints (monotone in each added state, so
\* in every superset).
C15_CeuMonotone ==
    op = "filter" =>
        /\ args.states_2 \subseteq out.ceu
        /\ \A T \in Grown(args.states_1) :
              out.ceu \subseteq
                 filter_ceu(args.agents, T, args.states_2, args.moves)
        /\ \A T \in Grown(args.states_2) :
              out.ceu \subseteq
                 filter_ceu(args.agents, args.states_1, T, args.moves)
\* under fairness, a result that holds more than states_2 and not every state
C15_Witness ==
    /\ op = "filter" /\ mas.fair # <<>>
    /\ args.states_2 # FalseBDD
    /\ out.ceu \notin {args.states_2, TrueBDD}
    /\ args.states_1 \notin {FalseBDD, TrueBDD}

\* C16: filter_cew(s1, s2, M) contains filter_ceu(s1, s2, M), in both
\* fairness branches.
C16_CewContainsCeu == op = "filter" => out.ceu \subseteq out.cew
C16_Witness ==
    /\ op = "filter" /\ mas.fair # <<>>
    /\ out.ceu # FalseBDD /\ out.ceu # out.cew /\ out.cew # TrueBDD

\* C17 as stated: for the empty move set the three filters yield false.
C17_Original ==
    (op = "filter" /\ args.moves = FalseBDD) =>
        out.cex = FalseBDD /\ out.ceu = FalseBDD /\ out.cew = FalseBDD
\* C17 amended: for the empty move set filter_cex yields false, filter_ceu
\* and filter_cew yield states_2.
C17_EmptyMoves ==
    (op = "filter" /\ args.moves = FalseBDD) =>
        /\ out.cex = FalseBDD
        /\ out.ceu = args.states_2
        /\ out.cew = args.states_2
C17_Witness ==
    /\ op = "filter" /\ args.moves = FalseBDD /\ mas.fair # <<>>
    /\ args.states_2 # FalseBDD /\ args.states_1 \notin SUBSET args.states_2

\* the joint actions of a coalition
JointActions(agents) == [Range(agents) -> Actions]
\* the steps of state s when the coalition plays act
StepsOf(agents, s, act) ==
    {t \in mas.trans : t[1] = s /\ \A ag \in Range(agents) : t[2][ag] = act[ag]}

\* C20: pre_ce(states, moves) is the set of the states s where the coalition
\* has an action a, with (s, a) in moves, such that whatever the others play
\* every successor is in states, and there is such a successor.
C20_PreCe ==
    op = "filter" =>
        StatesOf(out.pre) =
           {s \in States : \E act \in JointActions(args.agents) :
               /\ \E p \in args.moves :
                     p[1] = s /\ \A ag \in Range(args.agents) :
                                    p[2][ag] = act[ag]
               /\ StepsOf(args.agents, s, act) # {}
               /\ \A t \in StepsOf(args.agents, s, act) :
                     <<t[3], t[2]>> \in args.states_1}
\* a state with a move whose action is disabled is left out, another is kept
C20_Witness ==
    /\ op = "filter" /\ out.pre # FalseBDD
    /\ \E p \in args.moves :
          /\ <<p[1], p[2]>> \notin out.pre
          /\ \A t \in mas.trans : t[1] = p[1] => t[2]["a"] # p[2]["a"]

\* ----- claims about split ---------------------------------------------------
\* a set of moves is non-conflicting for an agent when two moves whose states
\* the agent cannot distinguish carry the same action of that agent
NonConflictingFor(ag, S) ==
    \A m1 \in S : \A m2 \in S :
        mas.obs[ag][m1[1]] = mas.obs[ag][m2[1]] => m1[2][ag] = m2[2][ag]
NonConflicting(agents, S) == \A ag \in Range(agents) : NonConflictingFor(ag, S)

\* the subset of M a choice of one action per agent and observation induces
Induced(agents, M, c) ==
    {m \in M : \A ag \in Range(agents) : m[2][ag] = c[ag][mas.obs[ag][m[1]]]}
\* the maximal non-conflicting subsets of M
MaximalNonConflicting(agents, M) ==
    LET cand == {Induced(agents, M, c) :
                    c \in [Range(agents) -> [States -> Actions]]}
    IN {S \in cand : \A T \in cand : S \subseteq T => S = T}

SplitCovers == SeqUnion(out) = args.moves
SplitNonConflicting ==
    \A k \in 1..Len(out) : NonConflicting(args.agents, out[k])
SplitMaximal ==
    \A k \in 1..Len(out) : \A m \in args.moves \ out[k] :
        ~NonConflicting(args.agents, out[k] \cup {m})
SplitComplete ==
    MaximalNonConflicting(args.agents, args.moves) \subseteq Range(out)
MovesReachable == StatesOf(args.moves) \subseteq mas.reach

C6_Original == op = "split" => SplitMaximal
C6_SingleAgent ==
    (op = "split" /\ Len(args.agents) = 1 /\ MovesReachable) => SplitMaximal

MaxFiltered == 2

\* the move sets compatible_moves is given: the moves of a set of states, or
\* one move
CompatMoves == {Lift(S) : S \in SUBSET States} \cup {{p} : p \in TrueBDD}

\* the filtered sets: a few moves that do not conflict for the coalition
CompatFiltered(agents) ==
    {F \in SUBSET TrueBDD :
        Cardinality(F) <= MaxFiltered /\ NonConflicting(agents, F)}

InitMoves ==
    /\ \E oa \in ObsMaps, ob \in ObsMaps \ {[s \in States |-> 1]},
          init \in {{1, 3}, States} :
          mas = MkMas(LoopTrans, [a |-> oa, b |-> ob], init, <<>>, Val)
    /\ pickKey \in {1, 4}
    /\ op = "init"
    /\ args = <<>>
    /\ out = <<>>
    /\ cache = NoCache
    /\ calls = {}

Compatible(agents, moves, filtered) ==
    /\ op' = "compatible_moves"
    /\ args' = [agents |-> agents, moves |-> moves, filtered |-> filtered]
    /\ out' = compatible_moves(agents, moves, filtered)
    /\ UNCHANGED <<mas, pickKey, cache, calls>>

SplitAll(agents, moves) ==
    /\ op' = "split_all"
    /\ args' = [agents |-> agents, moves |-> moves]
    /\ out' = split_all(agents, moves)
    /\ UNCHANGED <<mas, pickKey, cache, calls>>

NextMoves ==
    /\ op = "init"
    /\ \/ \E agents \in Coalitions : \E moves \in CompatMoves :
             \E filtered \in CompatFiltered(agents) :
                Compatible(agents, moves, filtered)
       \/ \E agents \in Coalitions : \E moves \in MoveSets(agents) :
             SplitAll(agents, moves)

SpecMoves == InitMoves /\ [][NextMoves]_vars

\* ----- claims about compatible_moves ------------------------------------------
\* the moves of a set that can join filtered without a conflict
CompatibleWith(agents, moves, filtered) ==
    {m \in moves : NonConflicting(agents, filtered \cup {m})}
FilteredReachable == StatesOf(args.filtered) \subseteq mas.reach

SplitAllSubsets ==
    \A k \in DOMAIN out : out[k] # FalseBDD /\ out[k] \subseteq args.moves
SplitAllNonConflicting ==
    \A k \in DOMAIN out : NonConflicting(args.agents, out[k])
SplitAllOnce ==
    \A k \in DOMAIN out : \A j \in DOMAIN out : out[k] = out[j] => k = j

MaxUnivMoves == 2

UnivTargets == {{}, {3}, {1, 2}}
UnivSources == {{}, {1}, {1, 2}, {2, 3}, States}
UnivStates == {{3}, {1, 2}, States}
\* agent a observes nothing, or tells state 3 from the others
UnivObs == {[s \in States |-> 1], [s \in States |-> IF s <= 2 THEN 1 ELSE s]}

\* the candidate moves: at most MaxUnivMoves choices of the single agent,
\* closed under the actions of the other, or one move of both agents
UnivMoves(agents) ==
    IF Len(agents) = 1
    THEN {{p \in TrueBDD : <<p[1], p[2][agents[1]]>> \in C} :
             C \in {D \in SUBSET (States \X Actions) :
                       Cardinality(D) <= MaxUnivMoves}}
    ELSE {M \in SUBSET TrueBDD : Cardinality(M) <= 1}

InitUniv ==
    /\ \E trans \in FilterTrans, fair \in {<<>>, <<Lift({3})>>},
          oa \in UnivObs :
          mas = MkMas(trans, [a |-> oa, b |-> [s \in States |-> s]],
                      {1}, fair, Val)
    /\ pickKey = 1
    /\ op = "init"
    /\ args = <<>>
    /\ out = <<>>
    /\ cache = NoCache
    /\ calls = {}

\* the existential and the universal filters of eval_alt for the candidate
\* moves, and the win and lose sets it derives from them, per kind of formula
Candidate(agents, states, states_1, states_2, moves) ==
    LET ce == [CEX |-> filter_cex(agents, states_1, moves),
               CEU |-> filter_ceu(agents, states_1, states_2, moves),
               CEW |-> filter_cew(agents, states_1, states_2, moves)]
        un == [CEX |-> filter_ax(agents, states_1, moves),
               CEU |-> filter_au(agents, states_1, states_2, moves),
               CEW |-> filter_aw(agents, states_1, states_2, moves)]
    IN /\ op' = "eval_alt"
       /\ args' = [agents |-> agents, states |-> states,
                   states_1 |-> states_1, states_2 |-> states_2,
                   moves |-> moves]
       /\ out' = [notlose |-> ce, surewin |-> un,
                  lose |-> [k \in DOMAIN ce |->
                              states \ all_equiv_sat(agents, ce[k] \cap states)],
                  win |-> [k \in DOMAIN un |->
                              all_equiv_sat(agents, un[k] \cap states)]]
       /\ UNCHANGED <<mas, pickKey, cache, calls>>

NextUniv ==
    /\ op = "init"
    /\ \E agents \in {GA, GAB} : \E moves \in UnivMoves(agents) :
          \E S \in UnivStates, S1 \in UnivSources, S2 \in UnivTargets :
             Candidate(agents, Lift(S), Lift(S1), Lift(S2), moves)

SpecUniv == InitUniv /\ [][NextUniv]_vars

\* ----- claims about the universal filters ---------------------------------------
StratKinds == {"CEX", "CEU", "CEW"}
UnivIncluded == \A k \in StratKinds : out.surewin[k] \subseteq out.notlose[k]
WinLoseDisjoint == \A k \in StratKinds : out.win[k] \cap out.lose[k] = FalseBDD
MovesInProtocol == args.moves \subseteq protocol(args.agents)

\* C22 as stated: the win and lose sets of one candidate of eval_alt are
\* disjoint, because for every move set and targets filter_ax is included in
\* filter_cex, filter_au in filter_ceu and filter_aw in filter_cew.
C22_Original == op = "eval_alt" => WinLoseDisjoint /\ UnivIncluded
\* C22 for the move sets eval_alt builds, which are moves of the protocol
C22_Protocol ==
    (op = "eval_alt" /\ MovesInProtocol) => WinLoseDisjoint /\ UnivIncluded
C22_Witness ==
    /\ op = "eval_alt" /\ MovesInProtocol /\ mas.fair # <<>>
    /\ \E k \in StratKinds :
          /\ out.win[k] # FalseBDD /\ out.lose[k] # FalseBDD
          /\ out.surewin[k] # out.notlose[k]

\* ----- specification of the strategies of partial.py ------------------------------
\* the filtered moves: choices of agent a per state, with any action of b
StratFiltered ==
    {{p \in TrueBDD : <<p[1], p[2]["a"]>> \in C} :
        C \in SUBSET (States \X Actions)}

InitStrats ==
    /\ \E trans \in EvalTrans, oa \in EvalObs :
          mas = MkMas(trans, [a |-> oa, b |-> [s \in States |-> s]],
                      {1}, <<>>, Val)
    /\ pickKey \in {1, 2}
    /\ op = "init"
    /\ args = <<>>
    /\ out = <<>>
    /\ cache = NoCache
    /\ calls = {}

PartialStrategies(agents, states, filtered) ==
    /\ op' = "partial_strategies_filtered"
    /\ args' = [agents |-> agents, states |-> states, filtered |-> filtered]
    /\ out' = partial_strategies_filtered(agents, states, filtered)
    /\ UNCHANGED <<mas, pickKey, cache, calls>>

NextStrats ==
    /\ op = "init"
    /\ \E agents \in {GA, GAB} : \E S \in SUBSET States :
          \E filtered \in StratFiltered :
             PartialStrategies(agents, Lift(S), filtered)

SpecStrats == InitStrats /\ [][NextStrats]_vars

\* ----- claims about partial_strategies_filtered ----------------------------------
\* the states reached in one step through the moves of a strategy
ReachedThrough(strat) ==
    {t[3] : t \in {u \in mas.trans : <<u[1], u[2]>> \in strat}}
\* a state where the strategy may still be extended with a move of filtered
Extensible(agents, strat, filtered, s) ==
    /\ s \notin StatesOf(strat)
    /\ \E m \in filtered : m[1] = s /\ NonConflicting(agents, strat \cup {m})
StratsInFiltered == \A k \in DOMAIN out : out[k] \subseteq args.filtered
StratsNonConflicting ==
    \A k \in DOMAIN out : NonConflicting(args.agents, out[k])
StratsClosed ==
    \A k \in DOMAIN out : \A s \in ReachedThrough(out[k]) :
        ~Extensible(args.agents, out[k], args.filtered, s)
StatesReachable == StatesOf(args.states) \subseteq mas.reach

BackwardTrans ==
    {Row(1, k1, 2, 1) \cup Row(2, k2, 3, 2) \cup Row(3, "loop", 3, 3) \cup Rest :
        k1 \in {"a", "match"}, k2 \in {"a", "b"}}

\* the states asked for and the values of the right sub-formula
BackwardStates == {{1}, {2}, {1, 2}, States}
BackwardTargets == {{3}, {2}, {2, 3}, {1, 3}}

InitBackward ==
    /\ \E trans \in BackwardTrans, oa \in EvalObs, init \in {{1}, {2}} :
          mas = MkMas(trans, [a |-> oa, b |-> [s \in States |-> s]],
                      init, <<>>, Val)
    /\ pickKey \in {1, 3}
    /\ op = "init"
    /\ args = <<>>
    /\ out = <<>>
    /\ cache = NoCache
    /\ calls = {}

\* the CEU branch of eval_strat of backward.py once the sub-formulas are
\* evaluated, and the calls of eval_backward_ceu it led to
BackwardCeu(agents, states, sub_1, sub_2) ==
    /\ op' = "eval_backward_ceu"
    /\ args' = [agents |-> agents, states |-> states,
                sub_1 |-> sub_1, sub_2 |-> sub_2]
    /\ out' = [sat |-> backward_ceu(agents, states, Eequiv(agents, states),
                                    sub_1, sub_2),
               calls |-> backward_ceu_calls(agents, Eequiv(agents, states),
                                            sub_1, sub_2)]
    /\ UNCHANGED <<mas, pickKey, cache, calls>>

NextBackward ==
    /\ op = "init"
    /\ \E agents \in {GA, GAB} : \E S \in BackwardStates :
          \E S1 \in SUBSET States, S2 \in BackwardTargets :
             BackwardCeu(agents, Lift(S), Lift(S1), Lift(S2))

SpecBackward == InitBackward /\ [][NextBackward]_vars

\* ----- claims about eval_backward_ceu ---------------------------------------------
\* the recursive calls, those of eval_strat left out
Recursive == {c \in out.calls : c.depth > 0}
CallsGrow ==
    \A c \in Recursive :
        c.new_strat # FalseBDD /\ c.new_strat \cap c.strat = FalseBDD
CallsNonConflicting ==
    \A c \in Recursive :
        NonConflicting(args.agents, c.strat)
           => NonConflicting(args.agents, c.strat \cup c.new_strat)
CallsBounded ==
    \A c \in Recursive : c.depth <= Cardinality(protocol(args.agents))

SubsReachable == StatesOf(args.sub_1 \cup args.sub_2) \subseteq mas.reach

GroupFormulas ==
    {nD(GAB, Atom("p3")), nC(GAB, Atom("p3")),
     Group1("D", GAB, Atom("p3")), Group1("C", GAB, Not(Atom("p3"))),
     nD(GA, Atom("p2")), nC(GA, Atom("p2"))}

NextGroup ==
    \E impl \in Impls, f \in GroupFormulas, S \in CallStates, pf \in BOOLEAN :
       FirstCall(impl, f, Lift(S), pf)

SpecGroup == InitKinds /\ [][NextGroup]_vars

\* ----- claims about the group epistemic kinds --------------------------------------
\* C28 as stated: partial, early and backward evaluate nD, D, nC and C
\* without error, to the set naive computes restricted to states.
C28_Original ==
    (op \in {"partial", "early", "backward"}
     /\ args.formula.kind \in {"nD", "D", "nC", "C"}) =>
        /\ out.err = ""
        /\ out.r = naive_evalATLK(EmptyMemo, args.formula,
                                  args.pre_filtering).r \cap args.states

\* ----- claims about the cache entries -----------------------------------------------
\* the cache entry of the formula of the calls
Entry == CacheOf(cache[op], args.formula)

\* C27 as stated: after any sequence of memoized partial or early calls, the
\* cache entry (sat, unsat) of the formula is a partition of the states
\* queried so far: sat and unsat are disjoint and their union is the union of
\* the states arguments of the calls made.
C27_Original ==
    (op \in {"partial", "early"} /\ out.err = "") =>
        /\ Entry.sat \cap Entry.unsat = FalseBDD
        /\ Entry.sat \cup Entry.unsat = Queried

\* ----- specification of the calls of eval_alt --------------------------------------
\* the calls of eval_alt the for loop of early.eval_strat makes: the states,
\* the strategy and the filtered moves passed, and what the call returned
RECURSIVE early_calls_loop(_, _, _, _, _, _, _)
EvalAltCall(equiv_states, strat, filtered, x) ==
    [states |-> equiv_states, strat |-> strat, filtered |-> filtered,
     r |-> x.r, err |-> x.err]
EarlyCallsAfter(f, agents, equiv_states, filtered, pf, strats, x) ==
    {EvalAltCall(equiv_states, Head(strats), filtered, x)}
    \cup IF x.err # "" \/ equiv_states \ x.r = FalseBDD THEN {}
         ELSE early_calls_loop(x.m, f, agents, equiv_states \ x.r, filtered,
                               pf, Tail(strats))
early_calls_loop(m, f, agents, equiv_states, filtered, pf, strats) ==
    IF strats = <<>> THEN {}
    ELSE EarlyCallsAfter(f, agents, equiv_states, filtered, pf, strats,
            eval_alt(m, f, agents, equiv_states, Head(strats), filtered, pf))

early_calls(m, f, states, pf) ==
    LET agents == agents_in_list(f.group)
        equiv_states == Eequiv(agents, states)
        sub_states ==
            IF f.kind = "CEX"
            THEN post_through(agents, equiv_states, protocol(agents))
            ELSE reach(states)
        found == IF pf
                 THEN WithSubs(m, f, sub_states,
                         LAMBDA mm, g, S : early_evalATLK(mm, g, S, pf),
                         LAMBDA s1, s2, mm :
                            Ret(naive_filtered(f, agents, s1, s2), mm))
                 ELSE Ret(protocol(agents), m)
        known == ForsomeInputs(equiv_states \cap found.r)
    IN IF pf /\ equiv_states \cap found.r = FalseBDD THEN {}
       ELSE early_calls_loop(found.m, f, agents, known, found.r, pf,
                             split(agents, known \cap found.r))

AltFormulas ==
    UNION {{CEX(g, Atom("p3")),
            CEX(g, Atom("p2")),
            CEU(g, Atom("p2"), Atom("p3")),
            CEU(g, Or(Atom("p1"), Atom("p2")), Atom("p3")),
            CEW(g, Atom("p2"), Atom("p1")),
            CEW(g, Or(Atom("p1"), Atom("p2")), Atom("p3"))}
           : g \in EvalGroups}

\* the formulas and the states they are asked on; the last formula needs the
\* move of b in state 3 to be chosen before the first two states are decided
AltCalls ==
    (AltFormulas \X CallStates)
    \cup ({CEU(GAB, Or(Atom("p2"), Atom("p3")), Atom("p1"))}
          \X {{1}, {1, 2}})

EvalAlt(f, states, pf) ==
    /\ op = "init"
    /\ op' = "eval_alt"
    /\ args' = [formula |-> f, states |-> states, pre_filtering |-> pf]
    /\ out' = early_calls(cache["early"], f, states, pf)
    /\ UNCHANGED <<mas, pickKey, cache, calls>>

NextAlt ==
    \E c \in AltCalls, pf \in BOOLEAN : EvalAlt(c[1], Lift(c[2]), pf)

SpecAlt == InitEval /\ [][NextAlt]_vars

\* ----- claims about eval_alt ---------------------------------------------------------
\* the value of a sub-formula without temporal or strategic operators
RECURSIVE Holds(_)
Holds(g) ==
    CASE g.kind = "Atom" -> mas.val[g.value]
      [] g.kind = "Or" -> Holds(g.left) \cup Holds(g.right)
      [] g.kind = "Not" -> States \ Holds(g.child)

\* the strategies that play the moves of strat where it has some, and moves
\* of filtered elsewhere on the reachable states that have some
Extends(agents, c, strat, filtered) ==
    \A s \in mas.reach :
        LET here == {m \in TrueBDD : m[1] = s /\ \A ag \in Range(agents) :
                                        m[2][ag] = c[ag][mas.obs[ag][s]]}
        IN /\ s \in StatesOf(strat) => here \cap strat # {}
           /\ (s \notin StatesOf(strat) /\ s \in StatesOf(filtered))
                 => here \cap filtered # {}

\* the states with a strategy extending strat with moves of filtered that
\* wins from every reachable state the coalition cannot distinguish from it
TrulyWinning(f, strat, filtered) ==
    LET agents == agents_in_list(f.group)
        P == Holds(Left(f))
        Q == IF f.kind = "CEX" THEN {} ELSE Holds(f.right)
    IN {s \in States : \E c \in Strategies(agents) :
          /\ Extends(agents, c, strat, filtered)
          /\ (Indistinguishable(agents, s) \cap mas.reach)
                \subseteq Win(f.kind, Outcome(agents, c), P, Q)}

\* the branch by which eval_alt returns on sub-formulas without strategic
\* operators: all the states are decided, no move of filtered can extend the
\* strategy, or the extensions are tried
eval_alt_branch(f, agents, states, strat, filtered, pf) ==
    LET completed_strat == complete_compatible(agents, strat)
        sub_states ==
            IF f.kind = "CEX"
            THEN post_through(agents, Eequiv(agents, states), completed_strat)
            ELSE ForsomeInputs(completed_strat)
        s1 == early_evalATLK(EmptyMemo, Left(f), sub_states, pf).r
        s2 == IF f.kind = "CEX" THEN FalseBDD
              ELSE early_evalATLK(EmptyMemo, f.right, sub_states, pf).r
        notlose == naive_winning(f, agents, s1, s2, completed_strat)
                   \cap states
        lose == states \ all_equiv_sat(agents, notlose)
        win == all_equiv_sat(agents,
                  early_winning(f, agents, s1, s2, completed_strat)
                  \cap states)
        new_states == post_through(agents, TrueBDD, strat)
                      \ ForsomeInputs(strat)
        compatible == compatible_moves(agents, new_states \cap filtered,
                                       strat)
    IN IF states \ (lose \cup win) = FalseBDD THEN "decided"
       ELSE IF compatible = FalseBDD THEN "no_extension"
       ELSE "extended"

LoopImpls == {"naive", "partial", "early"}
LoopFormulas ==
    UNION {{CEX(g, Atom("p3")),
            CEU(g, Or(Atom("p1"), Atom("p2")), Atom("p3")),
            CEW(g, Or(Atom("p1"), Atom("p2")), Atom("p3")),
            CEW(g, Or(Atom("p2"), Atom("p3")), Atom("p1"))}
           : g \in EvalGroups}

Entered(impl, f, states, pf, x, filtered, looked, strats) ==
    /\ op = "init"
    /\ op' = impl
    /\ args' = [formula |-> f, states |-> states, pre_filtering |-> pf,
                agents |-> agents_in_list(f.group), filtered |-> filtered]
    /\ out' = [strats |-> strats, sat |-> FalseBDD, states |-> looked,
               queried |-> ForsomeInputs(states \cap filtered),
               passed |-> 0, broke |-> FALSE]
    /\ cache' = [cache EXCEPT ![impl] = x.m]
    /\ UNCHANGED <<mas, pickKey, calls>>

\* the values of the sub-formulas naive.eval_strat asks the memoized evalATLK
\* for: r holds the two of them, the second being the first for CEX
naive_subs(m, f, pf) ==
    Then(naive_evalATLK(m, Left(f), pf), LAMBDA x1 :
    Then(IF f.kind = "CEX" THEN x1 ELSE naive_evalATLK(x1.m, f.right, pf),
         LAMBDA x2 : Ret(<<x1.r, x2.r>>, x2.m)))

NaiveEntered(f, pf, agents, x, filtered) ==
    Entered("naive", f, TrueBDD, pf, x, filtered, TrueBDD,
            IF pf /\ filtered = FalseBDD THEN <<>>
            ELSE split(agents, filtered))

NaiveFiltered(f, pf, agents, x) ==
    NaiveEntered(f, pf, agents, x,
                 IF pf THEN naive_filtered(f, agents, x.r[1], x.r[2])
                 ELSE protocol(agents))

\* naive.eval_strat up to its for loop
NaiveEnter(f, pf) ==
    NaiveFiltered(f, pf, agents_in_list(f.group),
                  naive_subs(cache["naive"], f, pf))

\* the moves eval_strat of partial.py or early.py keeps: the pre-filtered
\* moves when pre_filtering is set, the protocol otherwise
partial_found(m, f, states, pf, agents) ==
    IF pf
    THEN WithSubs(m, f,
            IF f.kind = "CEX"
            THEN post_through(agents, Eequiv(agents, states),
                              protocol(agents))
            ELSE reach(states),
            LAMBDA mm, g, S : partial_evalATLK(mm, g, S, pf),
            LAMBDA s1, s2, mm : Ret(naive_filtered(f, agents, s1, s2), mm))
    ELSE Ret(protocol(agents), m)

early_found(m, f, states, pf, agents) ==
    IF pf
    THEN WithSubs(m, f,
            IF f.kind = "CEX"
            THEN post_through(agents, Eequiv(agents, states),
                              protocol(agents))
            ELSE reach(states),
            LAMBDA mm, g, S : early_evalATLK(mm, g, S, pf),
            LAMBDA s1, s2, mm : Ret(naive_filtered(f, agents, s1, s2), mm))
    ELSE Ret(protocol(agents), m)

PartialEntered(f, states, pf, agents, found, known) ==
    Entered("partial", f, states, pf, found, found.r, known,
            IF pf /\ states \cap found.r = FalseBDD THEN <<>>
            ELSE partial_strategies_filtered(agents, Eequiv(agents, known),
                                             found.r))

PartialFound(f, states, pf, agents, found) ==
    PartialEntered(f, states, pf, agents, found,
                   ForsomeInputs(states \cap found.r))

\* partial.eval_strat up to its for loop
PartialEnter(f, states, pf) ==
    PartialFound(f, states, pf, agents_in_list(f.group),
                 partial_found(cache["partial"], f, states, pf,
                               agents_in_list(f.group)))

EarlyEntered(f, states, pf, agents, equiv_states, found, known) ==
    Entered("early", f, states, pf, found, found.r, known,
            IF pf /\ equiv_states \cap found.r = FalseBDD THEN <<>>
            ELSE split(agents, known \cap found.r))

EarlyFound(f, states, pf, agents, equiv_states, found) ==
    EarlyEntered(f, states, pf, agents, equiv_states, found,
                 ForsomeInputs(equiv_states \cap found.r))

\* early.eval_strat up to its for loop
EarlyEnter(f, states, pf) ==
    EarlyFound(f, states, pf, agents_in_list(f.group),
               Eequiv(agents_in_list(f.group), states),
               early_found(cache["early"], f, states, pf,
                           agents_in_list(f.group)))

\* one iteration that hands the next candidate to a filter, or to eval_alt
\* which hands its completion to one; won is what the candidate wins
Passed(impl, x, won, left, broke) ==
    /\ op = impl
    /\ out.strats # <<>>
    /\ ~out.broke
    /\ out' = [out EXCEPT !.strats = Tail(@), !.sat = @ \cup won,
                          !.states = left, !.passed = @ + 1,
                          !.broke = broke]
    /\ cache' = [cache EXCEPT ![impl] = x.m]
    /\ UNCHANGED <<mas, pickKey, op, args, calls>>

NaivePassed(f, x) ==
    Passed("naive", x,
           all_equiv_sat(args.agents,
              naive_winning(f, args.agents, x.r[1], x.r[2],
                            Head(out.strats))),
           out.states, FALSE)

\* the body of the for loop of naive.eval_strat
NaivePass ==
    /\ op = "naive"
    /\ out.strats # <<>>
    /\ NaivePassed(args.formula,
                   naive_subs(cache["naive"], args.formula,
                              args.pre_filtering))

PartialPassed(x) == Passed("partial", x, x.r, out.states, FALSE)

\* the body of the for loop of partial.eval_strat, after its test of sat
PartialPass ==
    /\ op = "partial"
    /\ out.strats # <<>>
    /\ out.sat # out.states
    /\ PartialPassed(partial_loop(cache["partial"], args.formula,
                                  args.pre_filtering, args.agents,
                                  out.states, <<Head(out.strats)>>,
                                  out.sat))

\* the test of sat that makes partial.eval_strat return from its loop
PartialReturn ==
    /\ op = "partial"
    /\ out.strats # <<>>
    /\ ~out.broke
    /\ out.sat = out.states
    /\ out' = [out EXCEPT !.broke = TRUE]
    /\ UNCHANGED <<mas, pickKey, op, args, cache, calls>>

EarlyPassed(x) ==
    Passed("early", x, x.r \cap args.states, out.states \ x.r,
           out.states \ x.r = FalseBDD)

\* the body of the for loop of early.eval_strat, its break included
EarlyPass ==
    /\ op = "early"
    /\ out.strats # <<>>
    /\ ~out.broke
    /\ EarlyPassed(eval_alt(cache["early"], args.formula, args.agents,
                            out.states, Head(out.strats), args.filtered,
                            args.pre_filtering))

NextLoops ==
    \/ /\ op = "init"
       /\ \E f \in LoopFormulas, pf \in BOOLEAN :
             \/ NaiveEnter(f, pf)
             \/ \E S \in CallStates :
                   \/ PartialEnter(f, Lift(S), pf)
                   \/ EarlyEnter(f, Lift(S), pf)
    \/ NaivePass
    \/ PartialPass
    \/ PartialReturn
    \/ EarlyPass

SpecLoops == InitEval /\ [][NextLoops]_vars

\* ----- claims about the loops over candidate strategies ------------------------
\* every queried state is known to be winning
AllDecided == StatesOf(args.states) \subseteq StatesOf(out.sat)
\* the step hands a candidate to a filter
PassesCandidate == op' = op /\ op \in LoopImpls /\ out'.passed > out.passed

\* C29: every loop that consumes candidate strategies stops once its
\* sufficient condition is met: after all the queried states are decided no
\* further candidate strategy is passed to a filter.
C29_Original == [][PassesCandidate => ~AllDecided]_vars

\* the branch a recorded call returned by
BranchOf(c) ==
    eval_alt_branch(args.formula, agents_in_list(args.formula.group),
                    c.states, c.strat, c.filtered, args.pre_filtering)

NoExtensionNotTaken ==
    op = "eval_alt" => \A c \in out : BranchOf(c) # "no_extension"

\* ----- specification of the encoding of the strategies ---------------------------
\* the filtered moves: a few choices of agent a per state with any action of
\* b, or the whole protocol
EncodeFiltered(agents) ==
    {{p \in TrueBDD : <<p[1], p[2]["a"]>> \in C} :
        C \in {D \in SUBSET (States \X Actions) : Cardinality(D) <= MaxFiltered}}
    \cup {protocol(agents)}

\* the states of the encoded model: a state of the system and a valuation of
\* the strategy variables
Encoded(V) == States \X V
\* the BDD of the single encoded state y
Single(V, y) == [c \in V |-> IF c = y[2] THEN {y[1]} ELSE {}]
\* the encoded states of the BDD X
Members(V, X) == {x \in Encoded(V) : x[1] \in X[x[2]]}
\* the steps <<x, y>> of a relation, from its pre-image of each encoded state
StepsInto(V, y, X) == {<<x, y>> : x \in Members(V, X)}

\* mas.transitions[formula] after encode_strategies: the three relations
Relations(agents, V) ==
    [variables |-> V,
     jump |-> UNION {StepsInto(V, y, jump_pre(Single(V, y)))
                     : y \in Encoded(V)},
     equiv |-> UNION {StepsInto(V, y, equiv_pre(agents, Single(V, y)))
                      : y \in Encoded(V)},
     follow |-> UNION {StepsInto(V, y, follow_pre(agents, Single(V, y)))
                       : y \in Encoded(V)}]

Encode(agents, filtered) ==
    /\ op = "init"
    /\ op' = "encode_strategies"
    /\ args' = [agents |-> agents, filtered |-> filtered]
    /\ out' = Relations(agents, encode_strategies(agents, filtered))
    /\ UNCHANGED <<mas, pickKey, cache, calls>>

InitEncode ==
    /\ \E trans \in EvalTrans, oa \in EvalObs :
          mas = MkMas(trans, [a |-> oa, b |-> [s \in States |-> s]],
                      {1}, <<>>, Val)
    /\ pickKey = 1
    /\ op = "init"
    /\ args = <<>>
    /\ out = <<>>
    /\ cache = NoCache
    /\ calls = {}

NextEncode ==
    \E agents \in EvalGroups : \E filtered \in EncodeFiltered(agents) :
        Encode(agents, filtered)

SpecEncode == InitEncode /\ [][NextEncode]_vars

\* ----- claims about the encoding of the strategies ------------------------------
\* the value of the strategy variable of agent ag for what it observes in
\* state s, 0 when no filtered move has this observation
Encodes(c, ag, s) == c[ag][mas.obs[ag][s]]

JumpFrame ==
    out.jump = {e \in Encoded(out.variables) \X Encoded(out.variables) :
                   e[1][1] = e[2][1]}
EquivFrame ==
    out.equiv = {e \in Encoded(out.variables) \X Encoded(out.variables) :
                    /\ e[1][2] = e[2][2]
                    /\ \E ag \in Range(args.agents) :
                          mas.obs[ag][e[1][1]] = mas.obs[ag][e[2][1]]}
\* the steps of the system in which the agents that have to play the action
\* their variable encodes do so; free tells which agents have not to
FollowSteps(free(_, _, _)) ==
    {e \in Encoded(out.variables) \X Encoded(out.variables) :
        /\ e[1][2] = e[2][2]
        /\ \E t \in mas.trans :
              /\ t[1] = e[1][1]
              /\ t[3] = e[2][1]
              /\ \A ag \in Range(args.agents) :
                    \/ free(e[1][2], ag, t[1])
                    \/ Encodes(e[1][2], ag, t[1]) = t[2][ag]}

====
